---- MODULE Spec2Model ----
(***************************************************************************)
(* A model of clc, the command-line MUD client (src/clc.c, first revision  *)
(* of the file): the TELNET protocol engine, the ANSI renderer, the line   *)
(* editor and the key/resize handlers of the main loop.                    *)
(*                                                                         *)
(* Bytes are the integers 0..255.  Strings are sequences of bytes without  *)
(* their terminating NUL.  Everything the program writes to the socket or  *)
(* to the main window is recorded, in order, in the event list `log`.      *)
(***************************************************************************)
EXTENDS Integers, Sequences, FiniteSets, TLC

(***************************************************************************)
(* Bounds of the model.  The two buffer capacities and the cap on the     *)
(* number of ZMP arguments are scaled down from the program's values       *)
(* (1024*8, 1024 and 32) so that the full/overflow cases are reached, and  *)
(* so is the capacity of a NUL-delimited message (2048).  MaxWrap bounds   *)
(* how far outside 0 .. EDITBUF_MAX the model follows a size_t that has    *)
(* wrapped below zero.                                                     *)
(***************************************************************************)
MaxSub == 21
MaxEdit == 3
MaxWrap == 2
MaxPayload == 3
MaxStream == 3
MaxArgs == 4
MaxMsg == 3

(***************************************************************************)
(* Program constants.                                                      *)
(***************************************************************************)
IAC == 255
DONT == 254
DO == 253
WONT == 252
WILL == 251
SB == 250
SE == 240
TELOPT_ECHO == 1
TELOPT_NAWS == 31
TELNET_MAX_SUB == MaxSub
MAX_ARGS == MaxArgs
TELNET_MAX_ZMP_ARGS == MaxArgs
TERM_MAX_ESC == 16
TERM_COLOR_DEFAULT == 9
COLOR_YELLOW == 3
EDITBUF_MAX == MaxEdit
WEBSOCK_MAX_MSG == MaxMsg
BANNER_SIZE == 1024
HostLittleEndian == TRUE
running == TRUE

KEY_ENTER == 343
KEY_BACKSPACE == 263
KEY_DC == 330
KEY_LEFT == 260
KEY_RIGHT == 261
KEY_HOME == 262
KEY_END == 360
KEY_MIN == 257
KEY_MAX == 511

Byte == 0..255

VARIABLES
    telnet,      \* struct TELNET: state, sub_buf, sub_size, flags
    terminal,    \* struct TERMINAL: state, esc_buf, esc_cnt, flags, color
    editbuf,     \* struct EDITBUF: buf, size, pos
    win_input,   \* what editbuf_display last drew in the input window
    COLS,        \* curses screen width
    LINES,       \* curses screen height
    now,         \* the clock time() reads
    log,         \* events (socket writes, main-window paints, dispatches)
    call,        \* the handler the main loop ran last, and its argument
    tin,         \* driver input: the byte sequence a driver specification feeds
    pc,          \* driver position: how much of tin has been consumed
    websock,     \* struct WEBSOCK: msg, msg_size
    banner,      \* the banner buffer, as a string
    autobanner,  \* whether paint_banner builds the banner itself
    protocol     \* protocol.type, which selects on_line, on_recv and on_resize

vars == <<telnet, terminal, editbuf, win_input, COLS, LINES, now, log, call, tin, pc,
          websock, banner, autobanner, protocol>>

(***************************************************************************)
(* Sequence helpers.                                                       *)
(***************************************************************************)
RECURSIVE Flatten(_)
Flatten(ss) == IF ss = <<>> THEN <<>> ELSE Head(ss) \o Flatten(Tail(ss))

RECURSIVE Rep(_, _)
Rep(b, n) == IF n <= 0 THEN <<>> ELSE <<b>> \o Rep(b, n - 1)

IsPrefix(p, s) == Len(p) <= Len(s) /\ SubSeq(s, 1, Len(p)) = p

SeqsUpTo(S, n) == UNION {[1..k -> S] : k \in 0..n}

(* the events of kind k, and the bytes they carry, in order *)
Ev(k, v) == [k |-> k, v |-> v]
EvOf(l, k) == SelectSeq(l, LAMBDA e : e.k = k)
BytesOf(l, k) == Flatten([i \in 1..Len(EvOf(l, k)) |-> EvOf(l, k)[i].v])
Sent(l) == BytesOf(l, "tx")
Painted(l) == BytesOf(l, "paint")

(* a char is signed on the program's platform: (int)data[i] *)
SChar(b) == IF b > 127 THEN b - 256 ELSE b

(* the bytes of a C string: up to, not including, the first NUL *)
RECURSIVE CStr(_)
CStr(s) == IF s = <<>> \/ Head(s) = 0 THEN <<>> ELSE <<Head(s)>> \o CStr(Tail(s))

(* snprintf "%d" *)
RECURSIVE DecDigits(_)
DecDigits(n) == IF n < 10 THEN <<48 + n>> ELSE DecDigits(n \div 10) \o <<48 + (n % 10)>>
FmtInt(n) == IF n < 0 THEN <<45>> \o DecDigits(0 - n) ELSE DecDigits(n)

(***************************************************************************)
(* The part of the program state the protocol and renderer code works on,  *)
(* as one record w, so that a handler is a function from w to w.           *)
(***************************************************************************)
World == [telnet |-> telnet, terminal |-> terminal, log |-> log,
          COLS |-> COLS, LINES |-> LINES, now |-> now,
          websock |-> websock, banner |-> banner, autobanner |-> autobanner]

(* curses calls on win_main, and send() on the socket *)
waddch(w, ch) == [w EXCEPT !.log = Append(@, Ev("paint", <<ch>>))]
wattron(w, pair) == [w EXCEPT !.log = Append(@, Ev("attr", <<pair>>))]
wclear(w) == [w EXCEPT !.log = Append(@, Ev("clear", <<>>))]

(* do_send: loops on send() until all len bytes are out; nothing for len 0 *)
do_send(w, bytes) ==
    IF Len(bytes) > 0 THEN [w EXCEPT !.log = Append(@, Ev("tx", bytes))] ELSE w

(***************************************************************************)
(* Terminal renderer.                                                      *)
(***************************************************************************)
(* an access, read or write, to terminal.esc_buf[i] *)
esc_buf_at(w, i) == [w EXCEPT !.log = Append(@, Ev("idx", <<i>>))]

RECURSIVE on_term_esc_m(_, _)
on_term_esc_m(w, i) ==
    IF i < w.terminal.esc_cnt
    THEN LET w0 == esc_buf_at(w, i)
             v == w.terminal.esc_buf[i]
             w1 == IF v = 0
                   THEN wattron([w0 EXCEPT !.terminal.color = TERM_COLOR_DEFAULT],
                                TERM_COLOR_DEFAULT)
                   ELSE IF v >= 31 /\ v <= 37
                   THEN wattron([w0 EXCEPT !.terminal.color = v - 30], v - 30)
                   ELSE w0
         IN on_term_esc_m(w1, i + 1)
    ELSE w

(* on_term_esc that knows the clear command only *)
on_term_esc_clear(w, cmd) ==
    IF cmd = 74
    THEN (IF w.terminal.esc_buf[0] = 2 THEN wclear(esc_buf_at(w, 0))
                                       ELSE esc_buf_at(w, 0))
    ELSE w

on_term_esc(w, cmd) ==
    IF cmd = 109 THEN on_term_esc_m(w, 0)                        \* 'm'
    ELSE IF cmd = 74                                             \* 'J'
    THEN (IF w.terminal.esc_buf[0] = 2 THEN wclear(esc_buf_at(w, 0))
                                       ELSE esc_buf_at(w, 0))
    ELSE w

RECURSIVE on_text_plain(_, _)
on_text_plain(w, text) ==
    IF text = <<>> THEN w
    ELSE on_text_plain(IF Head(text) # 27 /\ Head(text) # 13
                       THEN waddch(w, Head(text)) ELSE w,
                       Tail(text))

isdigit(c) == c >= 48 /\ c <= 57
isalpha(c) == (c >= 65 /\ c <= 90) \/ (c >= 97 /\ c <= 122)

(* on_text_ansi_step that starts the last parameter again when all are in use *)
on_text_ansi_step_restart(w, c) ==
    CASE w.terminal.state = "TERM_ASCII" ->
            IF c = 27 THEN [w EXCEPT !.terminal.state = "TERM_ESC"]
            ELSE IF c # 13 THEN waddch(w, c)
            ELSE w
      [] w.terminal.state = "TERM_ESC" ->
            IF c = 91                                            \* '['
            THEN [esc_buf_at(w, 0) EXCEPT !.terminal.state = "TERM_ESCRUN",
                                          !.terminal.esc_cnt = 0,
                                          !.terminal.esc_buf[0] = 0]
            ELSE [w EXCEPT !.terminal.state = "TERM_ASCII"]
      [] w.terminal.state = "TERM_ESCRUN" ->
            IF isdigit(c)
            THEN LET cnt == IF w.terminal.esc_cnt = 0 THEN 1 ELSE w.terminal.esc_cnt
                 IN [esc_buf_at(esc_buf_at(w, cnt - 1), cnt - 1)
                        EXCEPT !.terminal.esc_cnt = cnt,
                               !.terminal.esc_buf[cnt - 1] = @ * 10 + (c - 48)]
            ELSE IF c = 59                                       \* ';'
            THEN (IF w.terminal.esc_cnt < TERM_MAX_ESC
                  THEN [esc_buf_at(w, w.terminal.esc_cnt)
                           EXCEPT !.terminal.esc_cnt = @ + 1,
                                  !.terminal.esc_buf[w.terminal.esc_cnt] = 0]
                  ELSE [esc_buf_at(w, w.terminal.esc_cnt - 1)
                           EXCEPT !.terminal.esc_buf[w.terminal.esc_cnt - 1] = 0])
            ELSE [on_term_esc(w, c) EXCEPT !.terminal.state = "TERM_ASCII"]

on_text_ansi_step(w, c) ==
    CASE w.terminal.state = "TERM_ASCII" ->
            IF c = 27 THEN [w EXCEPT !.terminal.state = "TERM_ESC"]
            ELSE IF c # 13 THEN waddch(w, c)
            ELSE w
      [] w.terminal.state = "TERM_ESC" ->
            IF c = 91                                            \* '['
            THEN [esc_buf_at(w, 0) EXCEPT !.terminal.state = "TERM_ESCRUN",
                                          !.terminal.esc_cnt = 0,
                                          !.terminal.esc_buf[0] = 0]
            ELSE [w EXCEPT !.terminal.state = "TERM_ASCII"]
      [] w.terminal.state = "TERM_ESCRUN" ->
            IF isdigit(c)
            THEN LET cnt == IF w.terminal.esc_cnt = 0 THEN 1 ELSE w.terminal.esc_cnt
                 IN [esc_buf_at(esc_buf_at(w, cnt - 1), cnt - 1)
                        EXCEPT !.terminal.esc_cnt = cnt,
                               !.terminal.esc_buf[cnt - 1] = @ * 10 + (c - 48)]
            ELSE IF c = 59                                       \* ';'
            THEN (IF w.terminal.esc_cnt < TERM_MAX_ESC
                  THEN [esc_buf_at(w, w.terminal.esc_cnt)
                           EXCEPT !.terminal.esc_cnt = @ + 1,
                                  !.terminal.esc_buf[w.terminal.esc_cnt] = 0]
                  ELSE w)
            ELSE [on_term_esc(w, c) EXCEPT !.terminal.state = "TERM_ASCII"]

(* one iteration of on_text_ansi's loop; the event records the byte the     *)
(* renderer was handed                                                     *)
on_text_ansi_byte(w, c) ==
    on_text_ansi_step([w EXCEPT !.log = Append(@, Ev("ansi", <<c>>))], c)

(* the loop of on_text_ansi: each iteration switches on terminal.state *)
RECURSIVE on_text_ansi(_, _)
on_text_ansi(w, text) ==
    IF text = <<>> THEN w
    ELSE CASE w.terminal.state \in {"TERM_ASCII", "TERM_ESC", "TERM_ESCRUN"} ->
            on_text_ansi(on_text_ansi_byte(w, Head(text)), Tail(text))

(***************************************************************************)
(* TELNET: output.                                                         *)
(***************************************************************************)
RECURSIVE telnet_send_esc_loop(_, _, _, _)
(* telnet_send_esc that writes the bytes as they are *)
telnet_send_esc_raw(w, bytes) == do_send(w, bytes)

telnet_send_esc_loop(w, bytes, i, last) ==
    \* i and last are the loop's indices plus one (sequences start at 1)
    IF i > Len(bytes)
    THEN (IF i > last THEN do_send(w, SubSeq(bytes, last, i - 1)) ELSE w)
    ELSE IF bytes[i] = IAC
    THEN LET w1 == IF i > last THEN do_send(w, SubSeq(bytes, last, i - 1)) ELSE w
         IN telnet_send_esc_loop(do_send(w1, <<IAC, IAC>>), bytes, i + 1, i + 1)
    ELSE telnet_send_esc_loop(w, bytes, i + 1, last)

telnet_send_esc(w, bytes) == telnet_send_esc_loop(w, bytes, 1, 1)

telnet_send_cmd(w, cmd) == do_send(w, <<IAC, cmd>>)

telnet_send_opt(w, type, opt) == do_send(w, <<IAC, type, opt>>)

(* cmd and each of args is a C string; each goes out with its NUL *)
RECURSIVE telnet_send_zmp_args(_, _)
telnet_send_zmp_args(w, args) ==
    IF args = <<>> THEN w
    ELSE telnet_send_zmp_args(telnet_send_esc(w, CStr(Head(args)) \o <<0>>), Tail(args))

telnet_send_zmp(w, cmd, args) ==
    LET w1 == telnet_send_opt(w, SB, 93)
        w2 == telnet_send_esc(w1, CStr(cmd) \o <<0>>)
        w3 == telnet_send_zmp_args(w2, args)
    IN telnet_send_cmd(w3, SE)

(* htons left out: the value is passed on in host byte order *)
htons_host(x) == x % 65536

(* htons on an unsigned short, and the k-th byte in memory of an int *)
htons(x) ==
    LET u == x % 65536
    IN IF HostLittleEndian THEN (u % 256) * 256 + (u \div 256) ELSE u
IntMem(v, k) ==
    IF HostLittleEndian THEN (v \div (256 ^ k)) % 256
    ELSE (v \div (256 ^ (3 - k))) % 256

(* telnet_on_resize(w, h): the first two bytes in memory of each int *)
telnet_on_resize(w, cw, ch) ==
    IF "NAWS" \in w.telnet.flags
    THEN LET w1 == telnet_send_opt(w, SB, TELOPT_NAWS)
             w2 == telnet_send_esc(w1, <<IntMem(cw, 0), IntMem(cw, 1)>>)
             w3 == telnet_send_esc(w2, <<IntMem(ch, 0), IntMem(ch, 1)>>)
         IN telnet_send_cmd(w3, SE)
    ELSE w

(***************************************************************************)
(* strftime(buf, "%Y-%m-%d %H:%M:%S", gmtime(&t)) for t seconds since the  *)
(* epoch (the proleptic Gregorian calendar, as gmtime computes it).        *)
(***************************************************************************)
Dec2(n) == <<48 + ((n \div 10) % 10), 48 + (n % 10)>>
Dec4(n) == Dec2(n \div 100) \o Dec2(n % 100)
strftime_gmtime(t) ==
    LET days == t \div 86400
        rem  == t % 86400
        z    == days + 719468
        era  == z \div 146097
        doe  == z - era * 146097
        yoe  == (doe - doe \div 1460 + doe \div 36524 - doe \div 146096) \div 365
        doy  == doe - (365 * yoe + yoe \div 4 - yoe \div 100)
        mp   == (5 * doy + 2) \div 153
        d    == doy - (153 * mp + 2) \div 5 + 1
        m    == IF mp < 10 THEN mp + 3 ELSE mp - 9
        y    == yoe + era * 400 + (IF m <= 2 THEN 1 ELSE 0)
    IN Dec4(y) \o <<45>> \o Dec2(m) \o <<45>> \o Dec2(d) \o <<32>>
       \o Dec2(rem \div 3600) \o <<58>> \o Dec2((rem % 3600) \div 60)
       \o <<58>> \o Dec2(rem % 60)

(***************************************************************************)
(* TELNET: subnegotiation and ZMP.                                         *)
(***************************************************************************)
ZMP_PING == <<122, 109, 112, 46, 112, 105, 110, 103>>            \* "zmp.ping"
ZMP_TIME == <<122, 109, 112, 46, 116, 105, 109, 101>>            \* "zmp.time"
ZMP_INPUT == <<122, 109, 112, 46, 105, 110, 112, 117, 116>>      \* "zmp.input"
ZMP_CHECK == <<122, 109, 112, 46, 99, 104, 101, 99, 107>>        \* "zmp.check"
ZMP_IDENT == <<122, 109, 112, 46, 105, 100, 101, 110, 116>>        \* "zmp.ident"
ZMP_SUPPORT == <<122, 109, 112, 46, 115, 117, 112, 112, 111, 114, 116>>
ZMP_NO_SUPPORT == <<122, 109, 112, 46, 110, 111, 45, 115, 117, 112, 112, 111, 114, 116>>

(* sub_buf[from .. to-1] *)
SubBuf(w, from, to) == [i \in 1..(to - from) |-> w.telnet.sub_buf[from + i - 1]]

(* strlen(&sub_buf[c]) counted from k: the number of bytes before the      *)
(* first NUL, or -1 when the scan runs off the end of the array sub_buf    *)
RECURSIVE sub_strlen(_, _, _)
(* telnet_do_zmp that answers zmp.ping with a zmp.time without the time *)
telnet_do_zmp_notime(w) ==
    LET bytes == [i \in 1..(w.telnet.sub_size - 1) |-> w.telnet.sub_buf[i]]
        w1 == [w EXCEPT !.log = Append(@, [k |-> "zmp", v |-> bytes])]
    IN IF CStr(bytes) = ZMP_PING THEN telnet_send_zmp(w1, ZMP_TIME, <<>>) ELSE w1

sub_strlen(w, c, k) ==
    IF c + k >= TELNET_MAX_SUB THEN 0 - 1
    ELSE IF w.telnet.sub_buf[c + k] = 0 THEN k
    ELSE sub_strlen(w, c, k + 1)

(* the argument loop of telnet_do_zmp.  bytes is &sub_buf[1] and c an      *)
(* index into sub_buf, so bytes + len + 1 is sub_size + 1; args holds the  *)
(* arguments' offsets from bytes.  A scan that runs off the array is       *)
(* undefined: oob is set and the vector is followed no further.            *)
RECURSIVE telnet_do_zmp_args(_, _, _, _)
telnet_do_zmp_args(w, c, i, args) ==
    IF i < MAX_ARGS /\ c # w.telnet.sub_size + 1
    THEN LET n == sub_strlen(w, c, 0)
         IN IF n < 0 THEN [args |-> Append(args, c - 1), oob |-> TRUE]
            ELSE telnet_do_zmp_args(w, c + n + 1, i + 1, Append(args, c - 1))
    ELSE [args |-> args, oob |-> FALSE]

(* telnet_do_zmp(&sub_buf[1], sub_size - 1): the call, the argument vector *)
(* it builds, and the command args[0] names                                *)
telnet_do_zmp(w) ==
    LET bytes == SubBuf(w, 1, w.telnet.sub_size)
        p == telnet_do_zmp_args(w, 1, 0, <<>>)
        w1 == [w EXCEPT !.log = @ \o <<Ev("zmp", bytes), Ev("argv", p.args)>>
                                  \o (IF p.oob THEN <<Ev("oob", <<>>)>> ELSE <<>>)]
    IN IF CStr(bytes) = ZMP_PING
       THEN telnet_send_zmp(w1, ZMP_TIME, <<strftime_gmtime(w.now)>>)
       ELSE w1

(* telnet_do_subreq that does not look at the last byte *)
telnet_do_subreq_nonul(w) ==
    IF w.telnet.sub_size = 0 THEN w
    ELSE IF w.telnet.sub_buf[0] = 93 /\ "ZMP" \in w.telnet.flags
            /\ w.telnet.sub_size >= 3 /\ isalpha(w.telnet.sub_buf[1])
    THEN telnet_do_zmp(w)
    ELSE w

(* telnet_do_subreq that does not ask whether ZMP was negotiated *)
telnet_do_subreq_ungated(w) ==
    IF w.telnet.sub_size = 0 THEN w
    ELSE IF w.telnet.sub_buf[0] = 93
            /\ w.telnet.sub_size >= 3 /\ isalpha(w.telnet.sub_buf[1])
            /\ w.telnet.sub_buf[w.telnet.sub_size - 1] = 0
    THEN telnet_do_zmp(w)
    ELSE w

telnet_do_subreq(w) ==
    IF w.telnet.sub_size = 0 THEN w
    ELSE IF w.telnet.sub_buf[0] = 93
    THEN (IF "ZMP" \notin w.telnet.flags THEN w
          ELSE IF w.telnet.sub_size < 3
                  \/ ~isalpha(w.telnet.sub_buf[1])
                  \/ w.telnet.sub_buf[w.telnet.sub_size - 1] # 0
          THEN w
          ELSE telnet_do_zmp(w))
    ELSE w

(***************************************************************************)
(* TELNET: input.  telnet_on_recv_byte is one iteration of the loop of     *)
(* telnet_on_recv, on the byte c = data[i].                                *)
(***************************************************************************)
telnet_text(w, c) ==
    IF c = IAC THEN [w EXCEPT !.telnet.state = "TELNET_IAC"]
    ELSE on_text_ansi(w, <<c>>)

(* TELNET_IAC that leaves sub_size alone on SB *)
telnet_iac_keep(w, c) ==
    IF c = 255 THEN on_text_ansi(w, <<c>>)
    ELSE IF c = 253 THEN [w EXCEPT !.telnet.state = "TELNET_DO"]
    ELSE IF c = 254 THEN [w EXCEPT !.telnet.state = "TELNET_DONT"]
    ELSE IF c = 251 THEN [w EXCEPT !.telnet.state = "TELNET_WILL"]
    ELSE IF c = 252 THEN [w EXCEPT !.telnet.state = "TELNET_WONT"]
    ELSE IF c = 250 THEN [w EXCEPT !.telnet.state = "TELNET_SUB"]
    ELSE LET buf == <<60, 73, 65, 67, 58>> \o FmtInt(SChar(c)) \o <<62>>
         IN [on_text_plain(w, buf) EXCEPT !.telnet.state = "TELNET_TEXT"]

telnet_iac(w, c) ==
    IF c = IAC THEN on_text_ansi(w, <<c>>)
    ELSE IF c = DO THEN [w EXCEPT !.telnet.state = "TELNET_DO"]
    ELSE IF c = DONT THEN [w EXCEPT !.telnet.state = "TELNET_DONT"]
    ELSE IF c = WILL THEN [w EXCEPT !.telnet.state = "TELNET_WILL"]
    ELSE IF c = WONT THEN [w EXCEPT !.telnet.state = "TELNET_WONT"]
    ELSE IF c = SB
    THEN [w EXCEPT !.telnet.state = "TELNET_SUB", !.telnet.sub_size = 0]
    ELSE LET buf == <<60, 73, 65, 67, 58>> \o FmtInt(SChar(c)) \o <<62>>  \* "<IAC:%d>"
         IN [on_text_plain(w, buf) EXCEPT !.telnet.state = "TELNET_TEXT"]

(* TELNET_DO that acknowledges NAWS without reporting the size *)
telnet_do_noreport(w, c) ==
    LET w1 == IF c = 31
              THEN [w EXCEPT !.telnet.flags = @ \cup {"NAWS"},
                             !.log = Append(@, [k |-> "tx", v |-> <<255, 251, 31>>])]
              ELSE w
    IN [w1 EXCEPT !.telnet.state = "TELNET_TEXT"]

telnet_do(w, c) ==
    LET w1 == IF c = TELOPT_NAWS
              THEN telnet_on_resize(
                       telnet_send_opt([w EXCEPT !.telnet.flags = @ \cup {"NAWS"}],
                                       WILL, TELOPT_NAWS),
                       htons(w.COLS), htons(w.LINES))
              ELSE w
    IN [w1 EXCEPT !.telnet.state = "TELNET_TEXT"]

(* TELNET_DONT that stops window-size reporting on IAC DONT 31 *)
telnet_dont_off(w, c) ==
    [w EXCEPT !.telnet.state = "TELNET_TEXT",
              !.telnet.flags = IF c = 31 THEN @ \ {"NAWS"} ELSE @]

telnet_dont(w, c) == [w EXCEPT !.telnet.state = "TELNET_TEXT"]

(* TELNET_WILL that takes the option without acknowledging it *)
telnet_will_noack(w, c) ==
    LET w1 == IF c = 1 THEN [w EXCEPT !.terminal.flags = @ \ {"ECHO"}]
              ELSE IF c = 93 THEN [w EXCEPT !.telnet.flags = @ \cup {"ZMP"}]
              ELSE w
    IN [w1 EXCEPT !.telnet.state = "TELNET_TEXT"]

telnet_will(w, c) ==
    LET w1 == IF c = TELOPT_ECHO
              THEN telnet_send_opt([w EXCEPT !.terminal.flags = @ \ {"ECHO"}],
                                   DO, TELOPT_ECHO)
              ELSE IF c = 93
              THEN telnet_send_opt([w EXCEPT !.telnet.flags = @ \cup {"ZMP"}], DO, 93)
              ELSE w
    IN [w1 EXCEPT !.telnet.state = "TELNET_TEXT"]

(* TELNET_WONT that also gives up ZMP on IAC WONT 93 *)
telnet_wont_zmp(w, c) ==
    LET w1 == IF c = 1
              THEN [w EXCEPT !.terminal.flags = @ \cup {"ECHO"},
                             !.log = Append(@, [k |-> "tx", v |-> <<255, 254, 1>>])]
              ELSE IF c = 93 THEN [w EXCEPT !.telnet.flags = @ \ {"ZMP"}]
              ELSE w
    IN [w1 EXCEPT !.telnet.state = "TELNET_TEXT"]

telnet_wont(w, c) ==
    LET w1 == IF c = TELOPT_ECHO
              THEN telnet_send_opt([w EXCEPT !.terminal.flags = @ \cup {"ECHO"}],
                                   DONT, TELOPT_ECHO)
              ELSE w
    IN [w1 EXCEPT !.telnet.state = "TELNET_TEXT"]

(* TELNET_SUB that drops the bytes past the buffer's end and reads on *)
telnet_sub_drop(w, c) ==
    IF c = 255 THEN [w EXCEPT !.telnet.state = "TELNET_SUBIAC"]
    ELSE IF w.telnet.sub_size = TELNET_MAX_SUB THEN w
    ELSE [w EXCEPT !.telnet.sub_buf[w.telnet.sub_size] = c,
                   !.telnet.sub_size = @ + 1]

telnet_sub(w, c) ==
    IF c = IAC THEN [w EXCEPT !.telnet.state = "TELNET_SUBIAC"]
    ELSE IF w.telnet.sub_size = TELNET_MAX_SUB
    THEN [w EXCEPT !.telnet.state = "TELNET_TEXT"]
    ELSE [w EXCEPT !.telnet.sub_buf[w.telnet.sub_size] = c,
                   !.telnet.sub_size = @ + 1]

telnet_subiac(w, c) ==
    IF c = IAC
    THEN (IF w.telnet.sub_size = TELNET_MAX_SUB
          THEN [w EXCEPT !.telnet.state = "TELNET_TEXT"]
          ELSE [w EXCEPT !.telnet.sub_buf[w.telnet.sub_size] = c,
                         !.telnet.sub_size = @ + 1])
    ELSE IF c = SE
    THEN telnet_do_subreq([w EXCEPT !.telnet.state = "TELNET_TEXT"])
    ELSE [w EXCEPT !.telnet.state = "TELNET_TEXT"]

telnet_on_recv_byte(w, c) ==
    CASE w.telnet.state = "TELNET_TEXT" -> telnet_text(w, c)
      [] w.telnet.state = "TELNET_IAC" -> telnet_iac(w, c)
      [] w.telnet.state = "TELNET_DO" -> telnet_do(w, c)
      [] w.telnet.state = "TELNET_DONT" -> telnet_dont(w, c)
      [] w.telnet.state = "TELNET_WILL" -> telnet_will(w, c)
      [] w.telnet.state = "TELNET_WONT" -> telnet_wont(w, c)
      [] w.telnet.state = "TELNET_SUB" -> telnet_sub(w, c)
      [] w.telnet.state = "TELNET_SUBIAC" -> telnet_subiac(w, c)

RECURSIVE telnet_on_recv_from(_, _, _)
telnet_on_recv_from(w, data, i) ==
    IF i > Len(data) THEN w
    ELSE telnet_on_recv_from(telnet_on_recv_byte(w, data[i]), data, i + 1)

(* telnet_on_recv that starts every call in TELNET_TEXT *)
telnet_on_recv_local(w, data) ==
    telnet_on_recv_from([w EXCEPT !.telnet.state = "TELNET_TEXT"], data, 1)

(* telnet_on_recv that queues what the batch sends and writes it to the     *)
(* socket once the whole batch has been read                               *)
telnet_on_recv_late(w, data) ==
    LET w1 == telnet_on_recv_from([w EXCEPT !.log = <<>>], data, 1)
    IN [w1 EXCEPT !.log = w.log \o SelectSeq(w1.log, LAMBDA e : e.k # "tx")
                                \o SelectSeq(w1.log, LAMBDA e : e.k = "tx")]

telnet_on_recv(w, data) == telnet_on_recv_from(w, data, 1)

(* telnet_on_line that leaves the echo's colour pair switched on *)
telnet_on_line_yellow(w, line) ==
    LET w1 == IF "ZMP" \in w.telnet.flags
              THEN telnet_send_zmp(w, <<122, 109, 112, 46, 105, 110, 112, 117, 116>>,
                                   <<CStr(line)>>)
              ELSE telnet_send_esc(telnet_send_esc(w, line), <<10, 13>>)
    IN IF "ECHO" \in w1.terminal.flags
       THEN on_text_plain(on_text_plain(wattron(w1, 3), line), <<10>>)
       ELSE w1

(* telnet_on_line(line, len): line is the len bytes at line *)
telnet_on_line(w, line) ==
    LET w1 == IF "ZMP" \in w.telnet.flags
              THEN telnet_send_zmp(w, ZMP_INPUT, <<CStr(line)>>)
              ELSE telnet_send_esc(telnet_send_esc(w, line), <<10, 13>>)
    IN IF "ECHO" \in w1.terminal.flags
       THEN wattron(on_text_plain(on_text_plain(wattron(w1, COLOR_YELLOW), line),
                                  <<10>>),
                    w1.terminal.color)
       ELSE w1

(***************************************************************************)
(* Line editor.  buf is the array editbuf.buf[0 .. EDITBUF_MAX-1].  size   *)
(* and pos are size_t (64 bit): a value v is held as the integer congruent *)
(* to v modulo 2^64 that is nearest zero, so 2^64-1 is -1; ++ and -- are   *)
(* then the integers' and the unsigned comparisons are ULt and # 0.        *)
(* An access outside the array is undefined: such a read yields any byte,  *)
(* such a write lands outside buf, and a loop or memmove over some 2^64    *)
(* bytes does not return.  Each operation yields the set of edit buffers   *)
(* it can leave (none when it does not return).                            *)
(***************************************************************************)
EditBytes == {0, 97}
ULt(a, b) == IF (a >= 0) = (b >= 0) THEN a < b ELSE a >= 0
InBuf(i) == i \in 0..(EDITBUF_MAX - 1)

(* memmove(buf + dst, buf + src, n): the arrays it can leave *)
memmove(buf, dst, src, n) ==
    IF n < 0 THEN {}
    ELSE {b \in [0..(EDITBUF_MAX - 1) -> EditBytes] :
            \A i \in 0..(EDITBUF_MAX - 1) :
                IF i - dst \in 0..(n - 1)
                THEN InBuf(src + (i - dst)) => b[i] = buf[src + (i - dst)]
                ELSE b[i] = buf[i]}

(* buf[i] = ch *)
poke(buf, i, ch) == IF InBuf(i) THEN [buf EXCEPT ![i] = ch] ELSE buf

(* the sequences buf[0 .. n-1] can read as *)
peek(buf, n) ==
    {s \in [1..n -> EditBytes] : \A i \in 1..n : InBuf(i - 1) => s[i] = buf[i - 1]}

editbuf_set(e, text) ==
    LET str == CStr(text)
        n == IF Len(str) < EDITBUF_MAX THEN Len(str) ELSE EDITBUF_MAX - 1
    IN {[buf |-> [i \in 0..(EDITBUF_MAX - 1) |->
                    IF i < n THEN str[i + 1] ELSE IF i = n THEN 0 ELSE e.buf[i]],
         size |-> Len(str),
         pos |-> Len(str)]}

editbuf_insert(e, ch) ==
    IF e.size = EDITBUF_MAX THEN {e}
    ELSE IF e.pos = e.size
    THEN {[buf |-> poke(e.buf, e.pos, ch), size |-> e.size + 1, pos |-> e.size + 1]}
    ELSE {[buf |-> poke(b, e.pos, ch), size |-> e.size + 1, pos |-> e.pos + 1] :
            b \in memmove(e.buf, e.pos + 1, e.pos, e.size - e.pos)}

editbuf_bs(e) ==
    IF e.pos = 0 THEN {e}
    ELSE IF e.pos = e.size
    THEN {[e EXCEPT !.size = e.size - 1, !.pos = e.size - 1]}
    ELSE {[buf |-> b, size |-> e.size - 1, pos |-> e.pos - 1] :
            b \in memmove(e.buf, e.pos - 1, e.pos, e.size - e.pos)}

editbuf_del(e) ==
    IF e.pos = e.size THEN {e}
    ELSE IF e.pos = e.size - 1
    THEN {[e EXCEPT !.pos = e.pos - 1, !.size = e.size - 1]}
    ELSE {[buf |-> b, size |-> e.size - 1, pos |-> e.pos] :
            b \in memmove(e.buf, e.pos, e.pos + 1, e.size - e.pos - 1)}

editbuf_home(e) == {[e EXCEPT !.pos = 0]}

editbuf_end(e) == {[e EXCEPT !.pos = e.size]}

editbuf_curleft(e) == {IF e.pos # 0 THEN [e EXCEPT !.pos = e.pos - 1] ELSE e}

editbuf_curright(e) == {IF ULt(e.pos, e.size) THEN [e EXCEPT !.pos = e.pos + 1] ELSE e}

(* editbuf_display: what it can draw in win_input.  mvwaddnstr draws at    *)
(* most (int)size characters, all of the string when that is negative,     *)
(* and stops at a NUL; the other branch draws a '*' size times.            *)
editbuf_display(e, flags) ==
    IF "ECHO" \in flags
    THEN {[cells |-> CStr(s), cur |-> e.pos] :
            s \in peek(e.buf, IF e.size >= 0 THEN e.size ELSE EDITBUF_MAX + 1)}
    ELSE IF e.size >= 0 THEN {[cells |-> Rep(42, e.size), cur |-> e.pos]} ELSE {}

(***************************************************************************)
(* The program after main's set-up (lines 608-677), on a screen of the     *)
(* given size, at the given time.                                          *)
(***************************************************************************)
Dims == {24, 80, 255, 65535}
Clock == {0, 951782399, 2147483647}

InitTelnet == [state |-> "TELNET_TEXT",
               sub_buf |-> [i \in 0..(TELNET_MAX_SUB - 1) |-> 0],
               sub_size |-> 0, flags |-> {}]
InitTerminal == [state |-> "TERM_ASCII",
                 esc_buf |-> [i \in 0..(TERM_MAX_ESC - 1) |-> 0],
                 esc_cnt |-> 0, flags |-> {"ECHO"}, color |-> TERM_COLOR_DEFAULT]

InitWebsock == [msg |-> [i \in 0..(WEBSOCK_MAX_MSG - 1) |-> 0], msg_size |-> 0]

(* the command line's host and port, and the banner main builds of them *)
host == <<104>>                                               \* "h"
port == <<50, 51>>                                            \* "23"
InitBanner ==
    <<67, 76, 67, 32, 45, 32>> \o host \o <<58>> \o port
    \o <<32, 40, 99, 111, 110, 110, 101, 99, 116, 101, 100, 41>>

(* main up to its loop; protocol_init(type) has selected the handlers *)
InitProgramAs(type, cols, lines, t) ==
    /\ protocol = type
    /\ telnet = InitTelnet
    /\ terminal = InitTerminal
    /\ websock = InitWebsock
    /\ banner = InitBanner
    /\ autobanner = 1
    /\ editbuf = [buf |-> [i \in 0..(EDITBUF_MAX - 1) |-> 0], size |-> 0, pos |-> 0]
    /\ win_input = [cells |-> <<>>, cur |-> 0]
    /\ COLS = cols
    /\ LINES = lines
    /\ now = t
    /\ log = <<>>
    /\ call = [op |-> "init", arg |-> <<>>]

(* the TELNET protocol is the default *)
InitProgram(cols, lines, t) == InitProgramAs("PROTOCOL_TELNET", cols, lines, t)

(* the handler's effect on the state the record w holds *)
Commit(w) ==
    /\ telnet' = w.telnet
    /\ terminal' = w.terminal
    /\ log' = w.log
    /\ websock' = w.websock
    /\ banner' = w.banner
    /\ autobanner' = w.autobanner

(* the record a handler of the main loop starts from: log holds the events *)
(* of one handler run                                                      *)
Fresh == [World EXCEPT !.log = <<>>]

(***************************************************************************)
(* on_key(key), for the TELNET protocol (protocol.on_line is               *)
(* telnet_on_line).  A submit reads the line buf[0 .. size-1].             *)
(***************************************************************************)
on_key_submit ==
    IF editbuf.size >= 0
    THEN {[e |-> e2,
           w |-> telnet_on_line([Fresh EXCEPT !.log = <<Ev("line", line)>>], line)] :
            line \in peek(editbuf.buf, editbuf.size),
            e2 \in editbuf_set(editbuf, <<>>)}
    ELSE \* len is some 2^64: only snprintf's bounded copy returns
         IF "ZMP" \in telnet.flags /\ "ECHO" \notin terminal.flags
         THEN {[e |-> e2,
                w |-> telnet_send_zmp([Fresh EXCEPT !.log = <<Ev("line", line)>>],
                                      ZMP_INPUT, <<CStr(line)>>)] :
                line \in peek(editbuf.buf, EDITBUF_MAX),
                e2 \in editbuf_set(editbuf, <<>>)}
         ELSE {}

on_key_edit(es) == {[e |-> e2, w |-> Fresh] : e2 \in es}

(* on_key(key), submit being what protocol.on_line and editbuf_set leave *)
on_key_with(submit, key) ==
    /\ \E r \in IF key >= KEY_MIN /\ key <= KEY_MAX
                THEN CASE key = KEY_ENTER -> submit
                       [] key = KEY_BACKSPACE -> on_key_edit(editbuf_bs(editbuf))
                       [] key = KEY_DC -> on_key_edit(editbuf_del(editbuf))
                       [] key = KEY_LEFT -> on_key_edit(editbuf_curleft(editbuf))
                       [] key = KEY_RIGHT -> on_key_edit(editbuf_curright(editbuf))
                       [] key = KEY_HOME -> on_key_edit(editbuf_home(editbuf))
                       [] key = KEY_END -> on_key_edit(editbuf_end(editbuf))
                       [] OTHER -> on_key_edit({editbuf})
                ELSE IF key = 10 \/ key = 13
                THEN submit
                ELSE on_key_edit(editbuf_insert(editbuf, key % 256)) :
        /\ r.e.pos \in (0 - MaxWrap)..(EDITBUF_MAX + MaxWrap)
        /\ r.e.size \in (0 - MaxWrap)..(EDITBUF_MAX + MaxWrap)
        /\ editbuf' = r.e
        /\ Commit(r.w)
        /\ win_input' \in editbuf_display(r.e, r.w.terminal.flags)
    /\ call' = [op |-> "key", arg |-> <<key>>]
    /\ UNCHANGED <<COLS, LINES, now, tin, protocol, pc>>

on_key(key) == on_key_with(on_key_submit, key)

(* the main loop's recv() of the bytes data, handed to telnet_on_recv *)
on_recv(data) ==
    /\ Commit(telnet_on_recv(Fresh, data))
    /\ call' = [op |-> "recv", arg |-> data]
    /\ UNCHANGED <<editbuf, win_input, COLS, LINES, now, tin, protocol, pc>>

(* redraw_display on SIGWINCH: the ioctl fails, or reports cols x lines *)
redraw_display(ok, cols, lines) ==
    IF ok
    THEN /\ COLS' = cols
         /\ LINES' = lines
         /\ Commit(IF running
                   THEN telnet_on_resize([Fresh EXCEPT !.COLS = cols, !.LINES = lines],
                                         htons(cols), htons(lines))
                   ELSE Fresh)
         /\ win_input' \in editbuf_display(editbuf, terminal.flags)
         /\ call' = [op |-> "resize", arg |-> <<cols, lines>>]
         /\ UNCHANGED <<editbuf, now, tin, protocol, pc>>
    ELSE /\ call' = [op |-> "resize_failed", arg |-> <<>>]
         /\ log' = <<>>
         /\ UNCHANGED <<telnet, terminal, editbuf, win_input, COLS, LINES, now, tin, protocol, pc,
                        websock, banner, autobanner>>

(***************************************************************************)
(* Spec: a TELNET session at the keyboard.  The server negotiates echo and *)
(* ZMP; the user types.                                                    *)
(***************************************************************************)
Keys == {KEY_ENTER, KEY_BACKSPACE, KEY_DC, KEY_LEFT, KEY_RIGHT, KEY_HOME, KEY_END,
         259, 10, 13} \cup EditBytes
SessionChunks == {<<IAC, WILL, TELOPT_ECHO>>, <<IAC, WONT, TELOPT_ECHO>>,
                  <<IAC, WILL, 93>>}

Init == InitProgram(80, 24, 0) /\ tin = <<>> /\ pc = 0

Next ==
    \/ \E key \in Keys : on_key(key)
    \/ \E data \in SessionChunks : on_recv(data)

Spec == Init /\ [][Next]_vars

(***************************************************************************)
(* SpecNeg: option negotiation.  The server's bytes arrive one at a time   *)
(* or as whole commands, and the window is resized at any moment.          *)
(***************************************************************************)
NegBytes == {IAC, DO, DONT, WILL, WONT, TELOPT_ECHO, TELOPT_NAWS, 93, 65}
NegChunks ==
    {<<b>> : b \in NegBytes}
    \cup {<<IAC, v, o>> : v \in {DO, WILL}, o \in {TELOPT_ECHO, TELOPT_NAWS, 93}}
    \cup {<<IAC, DO, TELOPT_NAWS, 65>>}

InitNeg == \E cols \in Dims, lines \in Dims :
               InitProgram(cols, lines, 0) /\ tin = <<>> /\ pc = 0

NextNeg ==
    \/ \E data \in NegChunks : on_recv(data)
    \/ \E cols \in Dims, lines \in Dims : redraw_display(TRUE, cols, lines)
    \/ redraw_display(FALSE, COLS, LINES)

SpecNeg == InitNeg /\ [][NextNeg]_vars

(***************************************************************************)
(* What the claims compare the program's output with.                      *)
(***************************************************************************)
(* b with every IAC doubled *)
RECURSIVE Doubled(_)
Doubled(b) ==
    IF b = <<>> THEN <<>>
    ELSE (IF Head(b) = 255 THEN <<255, 255>> ELSE <<Head(b)>>) \o Doubled(Tail(b))

(* the NAWS frame for a screen of width x and height y *)
ResizeFrame(x, y) ==
    <<255, 250, 31>>
    \o Doubled(<<x \div 256, x % 256, y \div 256, y % 256>>)
    \o <<255, 240>>

OnlyTx(l) == \A i \in 1..Len(l) : l[i].k = "tx"

(* the longest prefix of l made of socket writes *)
RECURSIVE TxPrefix(_)
TxPrefix(l) ==
    IF l = <<>> \/ Head(l).k # "tx" THEN <<>> ELSE <<Head(l)>> \o TxPrefix(Tail(l))

(* the bytes of the command the engine is in the middle of *)
Pending(state) ==
    CASE state = "TELNET_TEXT" -> <<>>
      [] state = "TELNET_IAC" -> <<IAC>>
      [] state = "TELNET_DO" -> <<IAC, DO>>
      [] state = "TELNET_DONT" -> <<IAC, DONT>>
      [] state = "TELNET_WILL" -> <<IAC, WILL>>
      [] state = "TELNET_WONT" -> <<IAC, WONT>>
      [] OTHER -> <<0>>

(* this step is a telnet_on_recv whose bytes begin by completing cmd *)
Completes(cmd) ==
    /\ call'.op = "recv"
    /\ Len(Pending(telnet.state)) < Len(cmd)
    /\ IsPrefix(cmd, Pending(telnet.state) \o call'.arg)
(* ... and hold nothing after it *)
CompletesExactly(cmd) ==
    Completes(cmd) /\ Pending(telnet.state) \o call'.arg = cmd

(***************************************************************************)
(* C6.  Scenario A: from Text, IAC DO 31 sets the NAWS flag, transmits     *)
(* IAC WILL 31 and then at once, before any further inbound byte is        *)
(* consumed, one resize frame with the current width and height; the       *)
(* engine is then in Text.                                                 *)
(***************************************************************************)
C6_ScenarioA ==
    [][Completes(<<255, 253, 31>>) =>
        /\ IsPrefix(<<255, 251, 31>> \o ResizeFrame(COLS, LINES), Sent(TxPrefix(log')))
        /\ CompletesExactly(<<255, 253, 31>>) =>
              /\ OnlyTx(log')
              /\ Sent(log') = <<255, 251, 31>> \o ResizeFrame(COLS, LINES)
              /\ telnet'.flags = telnet.flags \cup {"NAWS"}
              /\ terminal' = terminal
              /\ telnet'.state = "TELNET_TEXT"]_vars

C6_Witness ==
    /\ call = [op |-> "recv", arg |-> <<255, 253, 31, 65>>]
    /\ COLS = 255 /\ LINES = 65535
    /\ Len(log) > 2
    /\ OnlyTx(SubSeq(log, 1, Len(log) - 2))
    /\ Sent(log) = <<255, 251, 31, 255, 250, 31, 0, 255, 255, 255, 255, 255, 255, 255, 240>>
    /\ log[Len(log)] = Ev("paint", <<65>>)
    /\ "NAWS" \in telnet.flags
    /\ telnet.state = "TELNET_TEXT"

(***************************************************************************)
(* C7.  NegotiateWill: IAC WILL 1 clears the local-echo flag and transmits *)
(* exactly IAC DO 1; IAC WILL 93 sets the ZMP flag and transmits exactly   *)
(* IAC DO 93; WILL of any other option transmits nothing and changes no    *)
(* flag; in every case the engine is in Text after the argument byte.      *)
(***************************************************************************)
C7_NegotiateWill ==
    [][LET cmd == Pending(telnet.state) \o call'.arg
           o == cmd[3]
       IN (Len(cmd) = 3 /\ CompletesExactly(<<255, 251, o>>)) =>
            /\ telnet'.state = "TELNET_TEXT"
            /\ o = 1 => /\ terminal'.flags = terminal.flags \ {"ECHO"}
                        /\ telnet'.flags = telnet.flags
                        /\ log' = <<Ev("tx", <<255, 253, 1>>)>>
            /\ o = 93 => /\ telnet'.flags = telnet.flags \cup {"ZMP"}
                         /\ terminal'.flags = terminal.flags
                         /\ log' = <<Ev("tx", <<255, 253, 93>>)>>
            /\ o \notin {1, 93} => /\ telnet'.flags = telnet.flags
                                   /\ terminal'.flags = terminal.flags
                                   /\ log' = <<>>]_vars

C7_Witness ==
    /\ call = [op |-> "recv", arg |-> <<255, 251, 1>>]
    /\ log = <<Ev("tx", <<255, 253, 1>>)>>
    /\ "ECHO" \notin terminal.flags
    /\ telnet.state = "TELNET_TEXT"

(***************************************************************************)
(* C10.  notify_resize: on a resize to w x h (each in 0..65535) the engine *)
(* transmits, if the NAWS flag is set, exactly IAC SB 31, the bytes w-high *)
(* w-low h-high h-low with each 255 doubled, IAC SE; if the flag is clear  *)
(* it transmits nothing.  Either way it changes no protocol state.         *)
(***************************************************************************)
C10_NotifyResize ==
    [][call'.op = "resize" =>
        /\ telnet' = telnet
        /\ terminal' = terminal
        /\ IF "NAWS" \in telnet.flags
           THEN OnlyTx(log') /\ Sent(log') = ResizeFrame(call'.arg[1], call'.arg[2])
           ELSE log' = <<>>]_vars

C10_Witness ==
    /\ call = [op |-> "resize", arg |-> <<255, 65535>>]
    /\ "NAWS" \in telnet.flags
    /\ Sent(log) = <<255, 250, 31, 0, 255, 255, 255, 255, 255, 255, 255, 240>>

(***************************************************************************)
(* SpecEsc: one payload tin goes out.  Either telnet_send_esc(tin) is      *)
(* called and what it wrote is fed back to telnet_on_recv, or, after the   *)
(* server's negotiation of echo and ZMP, tin is submitted as a line.       *)
(*   pc = 0  nothing sent yet        pc = 1  telnet_send_esc(tin) returned *)
(*   pc = 2  its bytes were received pc = 3  telnet_on_line(tin) returned  *)
(***************************************************************************)
PayloadBytes == {0, 65, SE, IAC}
Payloads == SeqsUpTo(PayloadBytes, MaxPayload)

InitEsc == InitProgram(80, 24, 0) /\ tin \in Payloads /\ pc = 0

esc_send ==
    /\ pc = 0
    /\ Commit(telnet_send_esc(Fresh, tin))
    /\ pc' = 1
    /\ call' = [op |-> "send_esc", arg |-> tin]
    /\ UNCHANGED <<editbuf, win_input, COLS, LINES, now, tin, protocol>>

esc_loop ==
    /\ pc = 1
    /\ Commit(telnet_on_recv(Fresh, Sent(log)))
    /\ pc' = 2
    /\ call' = [op |-> "recv", arg |-> Sent(log)]
    /\ UNCHANGED <<editbuf, win_input, COLS, LINES, now, tin, protocol>>

send_line ==
    /\ pc = 0
    /\ Commit(telnet_on_line(Fresh, tin))
    /\ pc' = 3
    /\ call' = [op |-> "line", arg |-> tin]
    /\ UNCHANGED <<editbuf, win_input, COLS, LINES, now, tin, protocol>>

NextEsc ==
    \/ esc_send
    \/ esc_loop
    \/ send_line
    \/ \E data \in SessionChunks : pc = 0 /\ on_recv(data)

SpecEsc == InitEsc /\ [][NextEsc]_vars

(***************************************************************************)
(* C2.  Round trip: for every payload, the bytes telnet_send_esc(payload)  *)
(* produces, fed to telnet_on_recv starting in Text, hand exactly the      *)
(* payload's bytes, in order and nothing else, to the terminal renderer,   *)
(* and the engine ends in Text.                                            *)
(***************************************************************************)
C2_RoundTrip ==
    pc = 2 =>
        /\ BytesOf(log, "ansi") = tin
        /\ \A i \in 1..Len(log) : log[i].k \in {"ansi", "paint", "attr", "clear", "idx"}
        /\ Painted(log) = Painted(on_text_ansi([Fresh EXCEPT !.log = <<>>], tin).log)
        /\ telnet.state = "TELNET_TEXT"

(***************************************************************************)
(* C4.  Outbound escaping: telnet_send_esc(b) transmits exactly b with     *)
(* each IAC byte replaced by two IAC bytes and every other byte unchanged, *)
(* in order; an empty b transmits nothing.                                 *)
(***************************************************************************)
C4_OutboundEscaping ==
    pc = 1 =>
        /\ OnlyTx(log)
        /\ Sent(log) = Doubled(tin)
        /\ tin = <<>> => log = <<>>

C4_Witness ==
    /\ pc = 1
    /\ tin = <<65, 255, 240>>
    /\ Sent(log) = <<65, 255, 255, 240>>

(***************************************************************************)
(* C9.  send_line: telnet_on_line(text) transmits, when the ZMP flag is    *)
(* set, exactly one frame IAC SB 93 "zmp.input" NUL escape(text) NUL       *)
(* IAC SE carrying the whole text, and when the flag is clear exactly      *)
(* escape(text) followed by the two-byte newline pair.                     *)
(***************************************************************************)
C9_SendLine ==
    pc = 3 =>
        Sent(TxPrefix(log)) =
            IF "ZMP" \in telnet.flags
            THEN <<255, 250, 93>> \o ZMP_INPUT \o <<0>> \o Doubled(tin) \o <<0, 255, 240>>
            ELSE Doubled(tin) \o <<10, 13>>

(***************************************************************************)
(* SpecStream: the server's byte stream tin reaches telnet_on_recv in      *)
(* consecutive chunks of any lengths; pc bytes have been consumed so far.  *)
(* The log is kept over the whole stream.                                  *)
(***************************************************************************)
StreamBytes == {IAC, SB, SE, DO, WILL, TELOPT_ECHO, TELOPT_NAWS, 93, 65}
ZmpOn == <<IAC, WILL, 93>>
PingFrame == <<IAC, SB, 93>> \o ZMP_PING \o <<0, IAC, SE>>
(* a subnegotiation of one byte more than the buffer holds: a zmp.ping     *)
(* padded with NULs, and a run of letters                                  *)
LongPing == <<IAC, SB, 93>> \o ZMP_PING \o Rep(0, TELNET_MAX_SUB - 8) \o <<IAC, SE>>
LongRun == <<IAC, SB>> \o Rep(65, TELNET_MAX_SUB + 1) \o <<IAC, SE, 66>>
(* ... and one that fills the buffer and then holds an escaped IAC *)
LongEsc == <<IAC, SB>> \o Rep(65, TELNET_MAX_SUB) \o <<IAC, IAC, 66>>
OverflowStreams == {ZmpOn \o LongPing, ZmpOn \o LongRun, ZmpOn \o LongEsc}
ScenarioStreams ==
    { ZmpOn \o PingFrame \o <<65>>,
      <<IAC, DO, TELOPT_NAWS, 72, 105>>,
      <<IAC, SB, 65, IAC, IAC, 66, IAC, SE, 67>>,
      <<IAC, WILL, TELOPT_ECHO, IAC, WONT, TELOPT_ECHO>>,
      <<27, 91, 51, 49, 109, 65, 27, 91, 50, 74>>,
      <<IAC, DONT, TELOPT_ECHO, 65>>,
      <<IAC, WONT, 93, 65>>,
      <<IAC, 0, IAC, 241, IAC, 127, IAC, 128>>,
      <<IAC, SB, 65, 66, IAC, SE, IAC, SB, 67, IAC, SE>>,
      <<IAC, SB, 65, IAC, 66, IAC, SB, IAC, SE>> }
Streams == SeqsUpTo(StreamBytes, MaxStream) \cup ScenarioStreams \cup OverflowStreams

InitStream ==
    \E t \in Clock : InitProgram(80, 255, t) /\ tin \in Streams /\ pc = 0

feed(n) ==
    /\ pc + n <= Len(tin)
    /\ Commit(telnet_on_recv(World, SubSeq(tin, pc + 1, pc + n)))
    /\ pc' = pc + n
    /\ call' = [op |-> "recv", arg |-> SubSeq(tin, pc + 1, pc + n)]
    /\ UNCHANGED <<editbuf, win_input, COLS, LINES, now, tin, protocol>>

NextStream == \E n \in 1..(Len(tin) - pc) : feed(n)

SpecStream == InitStream /\ [][NextStream]_vars

(***************************************************************************)
(* C1.  Fragmentation independence: however the inbound bytes are split    *)
(* into consecutive chunks passed to telnet_on_recv, the bytes painted,    *)
(* the bytes sent, the sub-protocol dispatches and the telnet and terminal *)
(* state and flags are those of feeding the same bytes in one call.        *)
(***************************************************************************)
OneCall ==
    telnet_on_recv([telnet |-> InitTelnet, terminal |-> InitTerminal, log |-> <<>>,
                    COLS |-> COLS, LINES |-> LINES, now |-> now],
                   SubSeq(tin, 1, pc))

C1_FragmentationIndependence ==
    /\ telnet = OneCall.telnet
    /\ terminal = OneCall.terminal
    /\ log = OneCall.log

C1_Witness ==
    /\ tin = ZmpOn \o PingFrame \o <<65>>
    /\ pc = Len(tin)
    /\ now = 951782399
    /\ call.arg = <<IAC, SE, 65>>
    /\ Len(EvOf(log, "zmp")) = 1
    /\ Sent(log) = <<255, 253, 93, 255, 250, 93>> \o ZMP_TIME \o <<0>>
                   \o <<50, 48, 48, 48, 45, 48, 50, 45, 50, 56, 32,
                        50, 51, 58, 53, 57, 58, 53, 57>>   \* "2000-02-28 23:59:59"
                   \o <<0, 255, 240>>
    /\ Painted(log) = <<65>>

(***************************************************************************)
(* C5.  Subnegotiation overflow: sub_size never exceeds the capacity of    *)
(* sub_buf, and when a payload byte arrives for a subnegotiation whose     *)
(* buffer is full the engine returns to Text; that subnegotiation is not   *)
(* handed to telnet_do_zmp and nothing is sent for it.  (TELNET_MAX_SUB    *)
(* stands for the program's 8192.)                                         *)
(***************************************************************************)
Overflows ==
    /\ call'.op = "recv"
    /\ Len(call'.arg) = 1
    /\ telnet.sub_size = TELNET_MAX_SUB
    /\ \/ telnet.state = "TELNET_SUB" /\ call'.arg[1] # 255
       \/ telnet.state = "TELNET_SUBIAC" /\ call'.arg[1] = 255

C5_SubnegotiationOverflow ==
    [][/\ telnet'.sub_size <= TELNET_MAX_SUB
       /\ Overflows => /\ telnet'.state = "TELNET_TEXT"
                       /\ log' = log
                       /\ telnet'.flags = telnet.flags
       /\ (tin \in OverflowStreams /\ pc' = Len(tin)) =>
              /\ telnet'.state = "TELNET_TEXT"
              /\ EvOf(log', "zmp") = <<>>
              /\ Sent(log') = <<255, 253, 93>>]_vars

C5_Witness ==
    /\ tin = ZmpOn \o LongPing
    /\ pc = Len(tin)
    /\ "ZMP" \in telnet.flags
    /\ telnet.sub_size = TELNET_MAX_SUB
    /\ telnet.sub_buf[0] = 93
    /\ telnet.state = "TELNET_TEXT"
    /\ EvOf(log, "zmp") = <<>>
    /\ Sent(log) = <<255, 253, 93>>

(***************************************************************************)
(* C3.  Editor invariant: after any sequence of editor operations,         *)
(* 0 <= pos <= size <= EDITBUF_MAX; pos and size never wrap below zero.    *)
(***************************************************************************)
C3_EditorInvariant ==
    /\ 0 <= editbuf.pos
    /\ editbuf.pos <= editbuf.size
    /\ editbuf.size <= EDITBUF_MAX

(***************************************************************************)
(* C8.  Display policy: what editbuf_display draws has exactly size cells; *)
(* with echo on they are the bytes buf[0 .. size-1], with echo off they    *)
(* are all '*'.  (on_key ends with editbuf_display.)                       *)
(***************************************************************************)
C8_DisplayPolicy ==
    call.op = "key" =>
        /\ Len(win_input.cells) = editbuf.size
        /\ \A i \in 1..Len(win_input.cells) :
              IF "ECHO" \in terminal.flags
              THEN InBuf(i - 1) /\ win_input.cells[i] = editbuf.buf[i - 1]
              ELSE win_input.cells[i] = 42

(***************************************************************************)
(* SpecZmp: one subnegotiation.  The server may first enable ZMP and may   *)
(* first send a subnegotiation that is not ZMP and leaves its bytes in     *)
(* sub_buf; then the frame IAC SB tin IAC SE arrives (pc = 1 afterwards).  *)
(***************************************************************************)
NulJoin(args) == Flatten([i \in 1..Len(args) |-> args[i] \o <<0>>])
Frame(p) == <<IAC, SB>> \o Doubled(p) \o <<IAC, SE>>

Words == {ZMP_PING, ZMP_CHECK, <<122, 109, 112, 46>>, <<122>>, <<>>}
ArgLists ==
    (SeqsUpTo(Words, 2) \ {<<>>}) \cup {Rep(<<122>>, k) : k \in 1..(MaxArgs + 1)}
WellFormed ==
    {p \in {<<93>> \o NulJoin(l) : l \in ArgLists} : Len(p) <= TELNET_MAX_SUB}
(* frames of the commands telnet_do_zmp knows and does nothing for, alone  *)
(* and with one argument                                                   *)
InfoFrames ==
    {<<93>> \o n \o a : n \in {ZMP_TIME, ZMP_IDENT, ZMP_SUPPORT, ZMP_NO_SUPPORT},
                        a \in {<<0>>, <<0, 122, 0>>}}
SubPayloads ==
    WellFormed
    \cup InfoFrames
    \cup {SubSeq(p, 1, Len(p) - 1) : p \in WellFormed}
    \cup {<<92>> \o Tail(p) : p \in WellFormed}
    \cup SeqsUpTo({0, 93, 122}, MaxPayload)
StaleFills ==
    { <<92>> \o Rep(65, 5),
      Rep(65, TELNET_MAX_SUB),
      <<92>> \o Rep(65, TELNET_MAX_SUB - 3) \o <<0, 65>> }

InitZmp == \E t \in Clock : InitProgram(80, 24, t) /\ tin \in SubPayloads /\ pc = 0

sub_recv ==
    /\ pc = 0
    /\ Commit(telnet_on_recv(Fresh, Frame(tin)))
    /\ pc' = 1
    /\ call' = [op |-> "sub", arg |-> tin]
    /\ UNCHANGED <<editbuf, win_input, COLS, LINES, now, tin, protocol>>

NextZmp ==
    \/ pc = 0 /\ "ZMP" \notin telnet.flags /\ on_recv(ZmpOn)
    \/ \E g \in StaleFills :
          pc = 0 /\ telnet.sub_buf = InitTelnet.sub_buf /\ on_recv(Frame(g))
    \/ sub_recv

SpecZmp == InitZmp /\ [][NextZmp]_vars

(***************************************************************************)
(* C11.  Validation before dispatch: a completed subnegotiation whose      *)
(* first byte is 93 reaches the sub-protocol parser only if its length is  *)
(* at least 3, its second byte is a letter and its last byte is NUL; a     *)
(* buffer failing one of these is discarded: nothing is sent, nothing is   *)
(* painted, and no flag or protocol state changes but the return to Text.  *)
(***************************************************************************)
Alphabetic(b) == b \in (65..90) \cup (97..122)
Valid(p) == Len(p) >= 3 /\ Alphabetic(p[2]) /\ p[Len(p)] = 0

C11_ValidationBeforeDispatch ==
    [][(call'.op = "sub" /\ tin # <<>> /\ tin[1] = 93) =>
        /\ EvOf(log', "zmp") # <<>> => Valid(tin)
        /\ ~Valid(tin) => /\ log' = <<>>
                          /\ telnet'.flags = telnet.flags
                          /\ terminal' = terminal
                          /\ telnet'.state = "TELNET_TEXT"
        /\ (Valid(tin) /\ "ZMP" \in telnet.flags) =>
              EvOf(log', "zmp") = <<Ev("zmp", Tail(tin))>>]_vars

C11_Witness ==
    /\ call = [op |-> "sub", arg |-> <<93>> \o ZMP_PING]
    /\ "ZMP" \in telnet.flags
    /\ telnet.sub_size = 9
    /\ telnet.state = "TELNET_TEXT"
    /\ log = <<>>

(***************************************************************************)
(* C12.  Argument parsing: for every validated payload the argument vector *)
(* telnet_do_zmp builds is exactly the NUL-terminated strings of the       *)
(* payload, in order, cut to the first MAX_ARGS; no argument starts at or  *)
(* beyond the payload's end and no scan reads outside the bytes received.  *)
(***************************************************************************)
(* the offsets at which the strings of the payload p start *)
RECURSIVE StringStartsFrom(_, _)
StringStartsFrom(p, i) ==
    IF i >= Len(p) THEN <<>>
    ELSE (IF i = 0 \/ p[i] = 0 THEN <<i>> ELSE <<>>) \o StringStartsFrom(p, i + 1)
StringStarts(p) == StringStartsFrom(p, 0)
Take(q, n) == SubSeq(q, 1, IF Len(q) < n THEN Len(q) ELSE n)

C12_ArgumentParsing ==
    (pc = 1 /\ call.op = "sub" /\ EvOf(log, "zmp") # <<>>) =>
        /\ EvOf(log, "argv") = <<Ev("argv", Take(StringStarts(Tail(tin)), MAX_ARGS))>>
        /\ EvOf(log, "oob") = <<>>

(***************************************************************************)
(* C13.  Parsing idempotence: the argument vector built for a completed    *)
(* buffer is the same (count and strings) whatever earlier subnegotiations *)
(* left in the unused part of sub_buf.                                     *)
(***************************************************************************)
(* the parse of the same frame received into a buffer never used before *)
FreshParse ==
    LET w == telnet_on_recv([telnet |-> [InitTelnet EXCEPT !.flags = telnet.flags],
                             terminal |-> InitTerminal, log |-> <<>>,
                             COLS |-> COLS, LINES |-> LINES, now |-> now],
                            Frame(tin))
    IN EvOf(w.log, "argv") \o EvOf(w.log, "oob")

C13_ParsingIdempotence ==
    (pc = 1 /\ call.op = "sub") =>
        EvOf(log, "argv") \o EvOf(log, "oob") = FreshParse

(***************************************************************************)
(* C14.  Scenario C: with ZMP set, a valid frame whose command name is     *)
(* zmp.ping is answered by exactly one frame IAC SB 93 "zmp.time" NUL      *)
(* timestamp NUL IAC SE, the timestamp being 19 characters of the form     *)
(* YYYY-MM-DD HH:MM:SS.                                                    *)
(***************************************************************************)
IsTimestamp(ts) ==
    /\ Len(ts) = 19
    /\ \A i \in 1..19 :
          IF i \in {5, 8} THEN ts[i] = 45              \* '-'
          ELSE IF i = 11 THEN ts[i] = 32               \* ' '
          ELSE IF i \in {14, 17} THEN ts[i] = 58       \* ':'
          ELSE ts[i] \in 48..57

C14_ScenarioC ==
    [][(/\ call'.op = "sub"
        /\ "ZMP" \in telnet.flags
        /\ Valid(tin) /\ tin[1] = 93
        /\ CStr(Tail(tin)) = <<122, 109, 112, 46, 112, 105, 110, 103>>) =>
          LET out == Sent(log')
              head == <<255, 250, 93, 122, 109, 112, 46, 116, 105, 109, 101, 0>>
          IN /\ OnlyTx(SelectSeq(log', LAMBDA e : e.k \notin {"zmp", "argv", "oob"}))
             /\ Len(out) = Len(head) + 19 + 3
             /\ SubSeq(out, 1, Len(head)) = head
             /\ IsTimestamp(SubSeq(out, Len(head) + 1, Len(head) + 19))
             /\ SubSeq(out, Len(head) + 20, Len(out)) = <<0, 255, 240>>]_vars

C14_Witness ==
    /\ call = [op |-> "sub", arg |-> <<93>> \o ZMP_PING \o <<0, 122, 0>>]
    /\ now = 2147483647
    /\ Sent(log) = <<255, 250, 93>> \o ZMP_TIME \o <<0>>
                   \o <<50, 48, 51, 56, 45, 48, 49, 45, 49, 57, 32,
                        48, 51, 58, 49, 52, 58, 48, 55>>   \* "2038-01-19 03:14:07"
                   \o <<0, 255, 240>>

(***************************************************************************)
(* The revision of the file that registers ZMP handlers (on_input,         *)
(* on_subreq, on_zmp, zmp_check).  Its struct TELNET, its do_send and      *)
(* do_send_esc and the cases of on_input not written out below are the     *)
(* same statements as the first revision's, and are taken from it.  Its    *)
(* renderer on_text is not modelled: a call of it is recorded as an        *)
(* "on_text" event.  The handlers return the set of their outcomes.        *)
(***************************************************************************)

(* zmp_list after main's zmp_register calls, head first *)
zmp_list == <<[name |-> ZMP_CHECK, cb |-> "zmp_check"]>>

do_send_esc(w, bytes) == telnet_send_esc_loop(w, bytes, 1, 1)

RECURSIVE waddstr(_, _)
waddstr(w, str) == IF str = <<>> THEN w ELSE waddstr(waddch(w, Head(str)), Tail(str))

(* strncmp(zmp->name, name, len) == 0 and strcmp(zmp->name, name) == 0 *)
zmp_do_check(name) ==
    IF Len(name) = 0 THEN FALSE
    ELSE IF name[Len(name)] = 46
    THEN \E i \in 1..Len(zmp_list) : IsPrefix(name, zmp_list[i].name)
    ELSE \E i \in 1..Len(zmp_list) : zmp_list[i].name = name

RECURSIVE zmp_send_args(_, _)
zmp_send_args(w, argv) ==
    IF argv = <<>> THEN w
    ELSE zmp_send_args(do_send_esc(w, Head(argv) \o <<0>>), Tail(argv))

zmp_send(w, argv) ==
    IF Len(argv) < 1 THEN w
    ELSE do_send(zmp_send_args(do_send(w, <<IAC, SB, 93>>), argv), <<IAC, SE>>)

zmp_check(w, argv) ==
    IF Len(argv) # 2 THEN w
    ELSE IF zmp_do_check(argv[2])
    THEN zmp_send(w, <<ZMP_SUPPORT, argv[2]>>)
    ELSE zmp_send(w, <<ZMP_NO_SUPPORT, argv[2]>>)

(* the C string at sub_buf[a]; a read of the byte after the array is made  *)
(* only where that byte was taken to be NUL                                *)
sub_str(w, a) ==
    IF a >= TELNET_MAX_SUB THEN <<>>
    ELSE [i \in 1..sub_strlen(w, a, 0) |-> w.telnet.sub_buf[a + i - 1]]

(* the loop of on_zmp.  data is &sub_buf[1], next and argv are indexes     *)
(* into sub_buf, so next - data = len is next = sub_size.  ok is FALSE     *)
(* when the loop ends at "fail on overflow".  Once next has passed         *)
(* sub_size it only grows, so the loop then ends there whatever it reads;  *)
(* the read of the byte after the array, at next + 1 = TELNET_MAX_SUB, is  *)
(* undefined and is followed both as NUL and as another byte.              *)
RECURSIVE on_zmp_args(_, _, _)
on_zmp_args(w, next, argv) ==
    IF next = w.telnet.sub_size THEN {[argv |-> argv, ok |-> TRUE]}
    ELSE IF Len(argv) = TELNET_MAX_ZMP_ARGS THEN {[argv |-> argv, ok |-> FALSE]}
    ELSE LET a == next + 1
             n == sub_strlen(w, a, 0)
         IN IF n >= 0 THEN on_zmp_args(w, a + n, Append(argv, a))
            ELSE IF a = w.telnet.sub_size /\ a >= TELNET_MAX_SUB
            THEN {[argv |-> Append(argv, a), ok |-> TRUE],
                  [argv |-> Append(argv, a), ok |-> FALSE]}
            ELSE {[argv |-> Append(argv, a), ok |-> FALSE]}

on_zmp_call(w, argv) ==
    LET hit == {i \in 1..Len(zmp_list) : zmp_list[i].name = argv[1]}
    IN IF hit = {} THEN w
       ELSE LET zmp == zmp_list[CHOOSE i \in hit : \A j \in hit : i <= j]
            IN IF zmp.cb = "zmp_check" THEN zmp_check(w, argv) ELSE w

on_zmp(w) ==
    LET w1 == [w EXCEPT !.log = @ \o <<Ev("on_zmp", SubBuf(w, 1, w.telnet.sub_size)),
                                       Ev("endwin", <<>>)>>]
    IN { IF p.ok
         THEN on_zmp_call([w1 EXCEPT !.log = Append(@, Ev("argv", [i \in 1..Len(p.argv) |-> p.argv[i] - 1]))],
                          [i \in 1..Len(p.argv) |-> sub_str(w, p.argv[i])])
         ELSE w1
         : p \in on_zmp_args(w, 1 + sub_strlen(w, 1, 0), <<1>>) }

on_subreq(w) ==
    IF w.telnet.sub_size = 0 THEN {w}
    ELSE IF w.telnet.sub_buf[0] = 93
    THEN (IF "ZMP" \notin w.telnet.flags THEN {w}
          ELSE IF w.telnet.sub_size < 3
                  \/ ~isalpha(w.telnet.sub_buf[1])
                  \/ w.telnet.sub_buf[w.telnet.sub_size - 1] # 0
          THEN {w}
          ELSE on_zmp(w))
    ELSE {w}

on_input_byte(w, c) ==
    CASE w.telnet.state = "TELNET_TEXT" /\ c # IAC ->
            {[w EXCEPT !.log = Append(@, Ev("on_text", <<c>>))]}
      [] w.telnet.state = "TELNET_IAC" /\ c = IAC ->
            {[w EXCEPT !.log = Append(@, Ev("on_text", <<c>>))]}
      [] w.telnet.state = "TELNET_IAC" /\ c \notin {IAC, DO, DONT, WILL, WONT, SB} ->
            {[waddstr(w, <<60, 73, 65, 67, 58>> \o FmtInt(SChar(c)) \o <<62>>)
                  EXCEPT !.telnet.state = "TELNET_TEXT"]}
      [] w.telnet.state = "TELNET_DO" ->
            {[w EXCEPT !.telnet.state = "TELNET_TEXT"]}
      [] w.telnet.state = "TELNET_SUBIAC" /\ c = SE ->
            on_subreq([w EXCEPT !.telnet.state = "TELNET_TEXT"])
      [] OTHER -> {telnet_on_recv_byte(w, c)}

RECURSIVE on_input_from(_, _, _)
on_input_from(w, data, i) ==
    IF i > Len(data) THEN {w}
    ELSE UNION {on_input_from(w1, data, i + 1) : w1 \in on_input_byte(w, data[i])}

on_input(w, data) == on_input_from(w, data, 1)

(***************************************************************************)
(* SpecZmp2: SpecZmp for that revision: ZMP may be enabled and a non-ZMP   *)
(* subnegotiation may leave its bytes in sub_buf, then the frame           *)
(* IAC SB tin IAC SE arrives (pc = 1 afterwards).                          *)
(***************************************************************************)
input(data, n) ==
    /\ pc = 0
    /\ \E w \in on_input(Fresh, data) : Commit(w)
    /\ pc' = n
    /\ call' = [op |-> "input", arg |-> data]
    /\ UNCHANGED <<editbuf, win_input, COLS, LINES, now, tin, protocol>>

NextZmp2 ==
    \/ "ZMP" \notin telnet.flags /\ input(ZmpOn, 0)
    \/ \E g \in StaleFills : telnet.sub_buf = InitTelnet.sub_buf /\ input(Frame(g), 0)
    \/ input(Frame(tin), 1)

SpecZmp2 == InitZmp /\ [][NextZmp2]_vars

(***************************************************************************)
(* C15.  Capability query: every valid zmp.check frame carrying a name is  *)
(* answered by exactly one frame naming that name: zmp.support if and only *)
(* if (the name ends in '.' and some registered command starts with it) or *)
(* (it does not end in '.' and some registered command equals it), and     *)
(* zmp.no-support otherwise.                                               *)
(***************************************************************************)
Registered == {<<122, 109, 112, 46, 99, 104, 101, 99, 107>>}      \* "zmp.check"
Supported(name) ==
    IF name[Len(name)] = 46
    THEN \E r \in Registered : IsPrefix(name, r)
    ELSE name \in Registered
CheckFrame(name) ==
    <<93, 122, 109, 112, 46, 99, 104, 101, 99, 107, 0>> \o name \o <<0>>
CheckReply(name) ==
    <<255, 250, 93>>
    \o (IF Supported(name)
        THEN <<122, 109, 112, 46, 115, 117, 112, 112, 111, 114, 116>>
        ELSE <<122, 109, 112, 46, 110, 111, 45, 115, 117, 112, 112, 111, 114, 116>>)
    \o <<0>> \o Doubled(name) \o <<0, 255, 240>>

C15_CapabilityQuery ==
    \A name \in Words \ {<<>>} :
        (pc = 1 /\ "ZMP" \in telnet.flags /\ tin = CheckFrame(name)) =>
            Sent(log) = CheckReply(name)

(***************************************************************************)
(* Renderer driver: tin is a text of printable bytes and escape sequences, *)
(* handed to on_text_ansi either whole, in one call, or one byte a call.   *)
(***************************************************************************)
MaxParams == 2

ScenarioD == <<27, 91, 51, 49, 109, 72, 105>>                 \* ESC [ 3 1 m H i
AnsiParams == {<<>>} \cup {FmtInt(v) : v \in {0, 2, 30, 31, 37, 38}}
AnsiFinals == {109, 74, 72}                                   \* m J H
AnsiTails == {<<>>, <<72, 105>>}                              \* "", "Hi"

RECURSIVE SemiJoin(_)
SemiJoin(ps) ==
    IF ps = <<>> THEN <<>>
    ELSE IF Len(ps) = 1 THEN ps[1]
    ELSE ps[1] \o <<59>> \o SemiJoin(Tail(ps))

(* ESC [ p1 ; .. ; pn final, then text *)
AnsiRuns ==
    {<<27, 91>> \o SemiJoin(ps) \o <<f>> \o t :
        ps \in SeqsUpTo(AnsiParams, MaxParams), f \in AnsiFinals, t \in AnsiTails}
(* one style parameter for each of the colours and their neighbours *)
StyleRuns == {<<27, 91>> \o FmtInt(v) \o <<109, 72, 105>> : v \in 29..39}
(* as many parameters as esc_buf holds, and more *)
LongRuns ==
    {<<27, 91>> \o Rep(59, k) \o d \o <<f>> :
        k \in (TERM_MAX_ESC - 2)..(TERM_MAX_ESC + 1),
        d \in {<<>>, <<51, 49>>}, f \in {109, 74}}
    \cup {<<27, 91>> \o Flatten([i \in 1..k |-> <<51, 49, 59>>]) \o <<51, 55, 109>> :
            k \in (TERM_MAX_ESC - 1)..(TERM_MAX_ESC + 1)}
(* a sequence after another one, an escape that starts no run, a CR *)
MixedRuns ==
    {a \o b : a \in {<<27, 91, 50, 74>>, <<27, 91, 51, 49, 59, 50, 109>>, <<27, 72>>, <<13>>},
              b \in {<<27, 91, 74>>, <<27, 91, 109>>, <<27, 91, 59, 74>>, ScenarioD}}
AnsiTexts == AnsiRuns \cup StyleRuns \cup LongRuns \cup MixedRuns

InitAnsi == \E t \in Clock : InitProgram(80, 24, t) /\ tin \in AnsiTexts /\ pc = 0

(* on_text_ansi(text, len) with the whole text *)
ansi_text ==
    /\ pc = 0
    /\ Commit(on_text_ansi(Fresh, tin))
    /\ pc' = Len(tin)
    /\ call' = [op |-> "text", arg |-> tin]
    /\ UNCHANGED <<editbuf, win_input, COLS, LINES, now, tin, protocol>>

(* on_text_ansi(text, 1) with the next byte of the text *)
ansi_byte ==
    /\ pc < Len(tin)
    /\ call.op # "text"
    /\ Commit(on_text_ansi(Fresh, <<tin[pc + 1]>>))
    /\ pc' = pc + 1
    /\ call' = [op |-> "byte", arg |-> <<tin[pc + 1]>>]
    /\ UNCHANGED <<editbuf, win_input, COLS, LINES, now, tin, protocol>>

NextAnsi == ansi_text \/ ansi_byte

SpecAnsi == InitAnsi /\ [][NextAnsi]_vars

(***************************************************************************)
(* C16.  Scenario D: on_text_ansi, called in TERM_ASCII with the bytes     *)
(* ESC [ 3 1 m H i, paints exactly 'H' then 'i', both after colour pair 1  *)
(* was switched on and with terminal.color = 1, paints none of the five    *)
(* bytes of the escape sequence, and ends in TERM_ASCII; and for every v   *)
(* in 31..37 the text ESC [ v m sets terminal.color to v - 30.             *)
(***************************************************************************)
Drawn(l) == SelectSeq(l, LAMBDA e : e.k \in {"paint", "attr", "clear"})

C16_ScenarioD ==
    call.op = "text" =>
        /\ tin = ScenarioD =>
              /\ Drawn(log) = <<Ev("attr", <<1>>), Ev("paint", <<72>>), Ev("paint", <<105>>)>>
              /\ terminal.color = 1
              /\ terminal.state = "TERM_ASCII"
        /\ \A v \in 31..37 :
              tin = <<27, 91>> \o FmtInt(v) \o <<109, 72, 105>> =>
                  /\ terminal.color = v - 30
                  /\ Drawn(log) = <<Ev("attr", <<v - 30>>), Ev("paint", <<72>>),
                                    Ev("paint", <<105>>)>>

C16_Witness ==
    /\ call.op = "text"
    /\ tin = ScenarioD
    /\ Painted(log) = <<72, 105>>
    /\ terminal.color = 1
    /\ terminal.state = "TERM_ASCII"

(***************************************************************************)
(* C17.  Renderer parameter bound: whatever text on_text_ansi is called    *)
(* with, esc_cnt is at most TERM_MAX_ESC afterwards, every access to       *)
(* esc_buf the call made had an index in 0 .. TERM_MAX_ESC - 1, and a ';'  *)
(* that arrives in TERM_ESCRUN when esc_cnt is TERM_MAX_ESC leaves esc_cnt *)
(* and esc_buf as they were.                                               *)
(***************************************************************************)
C17_ParameterBound ==
    [][/\ terminal'.esc_cnt <= TERM_MAX_ESC
       /\ \A i \in 1..Len(log') :
             log'[i].k = "idx" => log'[i].v[1] \in 0..(TERM_MAX_ESC - 1)
       /\ (/\ call'.op = "byte"
           /\ call'.arg = <<59>>
           /\ terminal.state = "TERM_ESCRUN"
           /\ terminal.esc_cnt = TERM_MAX_ESC)
          => /\ terminal'.esc_cnt = terminal.esc_cnt
             /\ terminal'.esc_buf = terminal.esc_buf
             /\ terminal'.state = "TERM_ESCRUN"]_vars

C17_Witness ==
    /\ call.op = "byte"
    /\ call.arg = <<59>>
    /\ pc = 2 + 3 * TERM_MAX_ESC
    /\ terminal.state = "TERM_ESCRUN"
    /\ terminal.esc_cnt = TERM_MAX_ESC
    /\ \A i \in 0..(TERM_MAX_ESC - 1) : terminal.esc_buf[i] = 31

(***************************************************************************)
(* WEBSOCK: the NUL-delimited protocol.                                    *)
(***************************************************************************)
(* paint_banner, while the socket is open *)
paint_banner(w) ==
    LET b == IF w.autobanner # 0
             THEN Take(host \o <<58>> \o port
                       \o <<32, 45, 32, 40, 99, 111, 110, 110, 101, 99, 116, 101, 100, 41>>,
                       BANNER_SIZE - 1)
             ELSE w.banner
    IN [w EXCEPT !.banner = b, !.log = Append(@, Ev("banner", CStr(b)))]

(* websock_on_line that escapes the line as the TELNET protocol does *)
websock_on_line_esc(w, line) ==
    do_send(telnet_send_esc(do_send(w, <<61>>), line), <<0>>)

websock_on_line(w, line) ==
    do_send(do_send(do_send(w, <<61>>), line), <<0>>)             \* '='

(* the bytes websock.msg[1 .. msg_size - 1] *)
websock_data(w) == [i \in 1..(w.websock.msg_size - 1) |-> w.websock.msg[i]]

(* password mode that looks at the first data byte only *)
websock_password_first(w) ==
    IF w.websock.msg[1] = 49
    THEN [w EXCEPT !.terminal.flags = @ \ {"ECHO"}]
    ELSE IF w.websock.msg[1] = 48
    THEN [w EXCEPT !.terminal.flags = @ \cup {"ECHO"}]
    ELSE w

(* case 'p': password mode *)
websock_password(w) ==
    IF w.websock.msg_size = 2 /\ w.websock.msg[1] = 49            \* '1'
    THEN [w EXCEPT !.terminal.flags = @ \ {"ECHO"}]
    ELSE IF w.websock.msg_size = 2 /\ w.websock.msg[1] = 48       \* '0'
    THEN [w EXCEPT !.terminal.flags = @ \cup {"ECHO"}]
    ELSE w

(* the switch on websock.msg[0] *)
websock_process(w) ==
    CASE w.websock.msg[0] = 34 -> on_text_plain(w, websock_data(w))            \* '"'
      [] w.websock.msg[0] = 62 ->                                              \* '>'
            paint_banner([w EXCEPT !.autobanner = 0,
                                   !.banner = Take(CStr(websock_data(w)), BANNER_SIZE - 1)])
      [] w.websock.msg[0] = 67 -> wclear(w)                                    \* 'C'
      [] w.websock.msg[0] = 112 -> websock_password(w)                         \* 'p'
      [] OTHER -> w

(* one iteration of websock_on_recv's loop *)
websock_on_recv_byte(w, c) ==
    IF c # 0
    THEN (IF w.websock.msg_size = WEBSOCK_MAX_MSG
          THEN w
          ELSE [w EXCEPT !.websock.msg[w.websock.msg_size] = c,
                         !.websock.msg_size = @ + 1])
    ELSE [websock_process(w) EXCEPT !.websock.msg[0] = 0, !.websock.msg_size = 0]

RECURSIVE websock_on_recv(_, _)
websock_on_recv(w, data) ==
    IF data = <<>> THEN w
    ELSE websock_on_recv(websock_on_recv_byte(w, Head(data)), Tail(data))

websock_on_resize(w, x, y) == w

(***************************************************************************)
(* Driver for the NUL-delimited protocol: tin is a stream of one or two    *)
(* messages, each closed by NUL, received whole or one byte a call; lines  *)
(* are submitted before the stream.                                        *)
(***************************************************************************)
WebTags == {34, 62, 67, 112, 65}                              \* " > C p A
WebData ==
    {<<>>, <<48>>, <<49>>, <<65>>, <<49, 48>>}
    \cup {Rep(65, k) : k \in (WEBSOCK_MAX_MSG - 1)..(WEBSOCK_MAX_MSG + 1)}
    \cup {<<49>> \o Rep(65, k) : k \in (WEBSOCK_MAX_MSG - 2)..WEBSOCK_MAX_MSG}
WebMsgs == {<<>>} \cup {<<t>> \o d : t \in WebTags, d \in WebData}
(* messages short enough to be read with bytes of the one before in msg *)
WebShort == {<<>>, <<34>>, <<62>>, <<67>>, <<112>>, <<112, 48>>, <<112, 49>>}
WebStreams ==
    {m \o <<0>> : m \in WebMsgs}
    \cup {m \o <<0>> \o n \o <<0>> : m \in WebMsgs, n \in WebShort}

InitWeb ==
    InitProgramAs("PROTOCOL_WEBSOCK", 80, 24, 0) /\ tin \in WebStreams /\ pc = 0

web_line(line) ==
    /\ pc = 0
    /\ call.op = "init"
    /\ Commit(websock_on_line(Fresh, line))
    /\ call' = [op |-> "line", arg |-> line]
    /\ UNCHANGED <<editbuf, win_input, COLS, LINES, now, tin, protocol, pc>>

web_recv ==
    /\ pc = 0
    /\ Commit(websock_on_recv(Fresh, tin))
    /\ pc' = Len(tin)
    /\ call' = [op |-> "wrecv", arg |-> tin]
    /\ UNCHANGED <<editbuf, win_input, COLS, LINES, now, tin, protocol>>

web_byte ==
    /\ pc < Len(tin)
    /\ call.op # "wrecv"
    /\ Commit(websock_on_recv(Fresh, <<tin[pc + 1]>>))
    /\ pc' = pc + 1
    /\ call' = [op |-> "wbyte", arg |-> <<tin[pc + 1]>>]
    /\ UNCHANGED <<editbuf, win_input, COLS, LINES, now, tin, protocol>>

web_resize(x, y) ==
    /\ pc = 0
    /\ call.op = "init"
    /\ Commit(websock_on_resize(Fresh, x, y))
    /\ call' = [op |-> "wresize", arg |-> <<x, y>>]
    /\ UNCHANGED <<editbuf, win_input, COLS, LINES, now, tin, protocol, pc>>

NextWeb ==
    \/ \E line \in Payloads : web_line(line)
    \/ web_recv
    \/ web_byte
    \/ \E x \in Dims : web_resize(x, 24)

SpecWeb == InitWeb /\ [][NextWeb]_vars

(* the message that ends at s[k]: the bytes after the last NUL of s[1..k] *)
RECURSIVE MsgBefore(_, _)
MsgBefore(s, k) == IF k = 0 \/ s[k] = 0 THEN <<>> ELSE Append(MsgBefore(s, k - 1), s[k])

(***************************************************************************)
(* C18.  Outbound framing: websock_on_line(L) sends exactly '=' then the   *)
(* bytes of L as they are, then one NUL, and does nothing else.            *)
(***************************************************************************)
C18_OutboundFraming ==
    [][call'.op = "line" =>
          /\ OnlyTx(log')
          /\ Sent(log') = <<61>> \o call'.arg \o <<0>>
          /\ UNCHANGED <<telnet, terminal, websock, banner, autobanner>>]_vars

C18_Witness ==
    /\ call = [op |-> "line", arg |-> <<IAC, 0, 65>>]
    /\ Sent(log) = <<61, 255, 0, 65, 0>>

(***************************************************************************)
(* C19.  Inbound drop rule: when the NUL that ends a message arrives, a    *)
(* message that is empty, or whose first byte is none of '"' '>' 'C' 'p',  *)
(* or that is longer than WEBSOCK_MAX_MSG, paints and clears nothing and   *)
(* leaves the banner and the echo flag as they were; msg_size is 0 after   *)
(* every such NUL, and never above WEBSOCK_MAX_MSG.                        *)
(***************************************************************************)
C19_InboundDrop ==
    [][/\ websock'.msg_size <= WEBSOCK_MAX_MSG
       /\ (call'.op = "wbyte" /\ call'.arg = <<0>>) =>
             LET m == MsgBefore(tin, pc)
             IN /\ websock'.msg_size = 0
                /\ (m = <<>> \/ m[1] \notin {34, 62, 67, 112} \/ Len(m) > WEBSOCK_MAX_MSG)
                   => /\ log' = <<>>
                      /\ banner' = banner
                      /\ autobanner' = autobanner
                      /\ terminal'.flags = terminal.flags]_vars

(***************************************************************************)
(* C20.  Echo toggle, as stated: the message p 0 turns local echo off, the *)
(* message p 1 turns it on, and a p message with any other data leaves the *)
(* echo flag as it was.                                                    *)
(***************************************************************************)
C20_EchoToggle_AsStated ==
    [][(call'.op = "wbyte" /\ call'.arg = <<0>>) =>
          LET m == MsgBefore(tin, pc)
          IN (m # <<>> /\ m[1] = 112) =>
                terminal'.flags =
                    IF m = <<112, 48>> THEN terminal.flags \ {"ECHO"}
                    ELSE IF m = <<112, 49>> THEN terminal.flags \cup {"ECHO"}
                    ELSE terminal.flags]_vars

(***************************************************************************)
(* C20, amended.  Echo toggle: the message p 1 (password mode on) turns    *)
(* local echo off, the message p 0 (password mode off) turns it on, and a  *)
(* p message with any other data (none, another byte, more than one byte)  *)
(* leaves the echo flag as it was.                                         *)
(***************************************************************************)
C20_EchoToggle ==
    [][(call'.op = "wbyte" /\ call'.arg = <<0>>) =>
          LET m == MsgBefore(tin, pc)
          IN (m # <<>> /\ m[1] = 112) =>
                terminal'.flags =
                    IF m = <<112, 49>> THEN terminal.flags \ {"ECHO"}
                    ELSE IF m = <<112, 48>> THEN terminal.flags \cup {"ECHO"}
                    ELSE terminal.flags]_vars

C20_Witness ==
    /\ call = [op |-> "wbyte", arg |-> <<0>>]
    /\ pc = 3
    /\ SubSeq(tin, 1, 3) = <<112, 49, 0>>
    /\ "ECHO" \notin terminal.flags
    /\ websock.msg_size = 0

(***************************************************************************)
(* C22.  SubnegotiationEscape rule: in TELNET_SUBIAC an IAC is appended to *)
(* sub_buf and the engine is in TELNET_SUB again; SE leads to TELNET_TEXT  *)
(* and hands the buffer on only if sub_size > 0; any other byte leads to   *)
(* TELNET_TEXT and dispatches nothing.                                     *)
(***************************************************************************)
OneByte == call'.op = "recv" /\ Len(call'.arg) = 1

C22_SubnegotiationEscape ==
    [][(OneByte /\ telnet.state = "TELNET_SUBIAC") =>
          LET c == call'.arg[1]
          IN CASE c = IAC ->
                    telnet.sub_size < TELNET_MAX_SUB =>
                        /\ telnet'.state = "TELNET_SUB"
                        /\ telnet'.sub_size = telnet.sub_size + 1
                        /\ telnet'.sub_buf[telnet.sub_size] = IAC
               [] c = SE ->
                    /\ telnet'.state = "TELNET_TEXT"
                    /\ telnet.sub_size = 0 => log' = log
               [] OTHER ->
                    /\ telnet'.state = "TELNET_TEXT"
                    /\ log' = log]_vars

(***************************************************************************)
(* C28.  Overflow discard: of a subnegotiation one byte longer than        *)
(* sub_buf, the bytes that follow the overflow, its closing IAC SE         *)
(* included, are neither stored, dispatched nor painted, and no <IAC:n>    *)
(* placeholder is painted for them: when the whole stream is in, only the  *)
(* text after IAC SE is on the display.                                    *)
(***************************************************************************)
C28_OverflowDiscard ==
    pc = Len(tin) =>
        /\ tin = ZmpOn \o LongPing =>
              /\ Painted(log) = <<>>
              /\ EvOf(log, "zmp") = <<>>
              /\ telnet.sub_size <= TELNET_MAX_SUB
        /\ tin = ZmpOn \o LongRun =>
              /\ Painted(log) = <<66>>
              /\ EvOf(log, "zmp") = <<>>
              /\ telnet.sub_size <= TELNET_MAX_SUB

(***************************************************************************)
(* C23.  ControlByte rule: in TELNET_IAC the bytes DO, DONT, WILL, WONT    *)
(* lead to the state of that name; SB leads to TELNET_SUB with sub_size 0; *)
(* a byte that is none of IAC, DO, DONT, WILL, WONT, SB paints the         *)
(* placeholder <IAC:n> (n the byte as a signed char), sends nothing,       *)
(* changes no flag and leads to TELNET_TEXT; after every byte the engine   *)
(* is in one of its states.                                                *)
(***************************************************************************)
TelnetStates ==
    {"TELNET_TEXT", "TELNET_IAC", "TELNET_DO", "TELNET_DONT", "TELNET_WILL",
     "TELNET_WONT", "TELNET_SUB", "TELNET_SUBIAC"}

C23_ControlByte ==
    [][/\ telnet'.state \in TelnetStates
       /\ (OneByte /\ telnet.state = "TELNET_IAC") =>
             LET c == call'.arg[1]
             IN CASE c = DO -> telnet'.state = "TELNET_DO"
                  [] c = DONT -> telnet'.state = "TELNET_DONT"
                  [] c = WILL -> telnet'.state = "TELNET_WILL"
                  [] c = WONT -> telnet'.state = "TELNET_WONT"
                  [] c = SB -> telnet'.state = "TELNET_SUB" /\ telnet'.sub_size = 0
                  [] c = IAC -> TRUE
                  [] OTHER ->
                       /\ telnet'.state = "TELNET_TEXT"
                       /\ Painted(log') = Painted(log) \o <<60, 73, 65, 67, 58>>
                                          \o FmtInt(SChar(c)) \o <<62>>
                       /\ Sent(log') = Sent(log)
                       /\ telnet'.flags = telnet.flags
                       /\ terminal'.flags = terminal.flags]_vars

C23_Witness ==
    /\ call = [op |-> "recv", arg |-> <<SB>>]
    /\ tin = <<IAC, SB, 65, 66, IAC, SE, IAC, SB, 67, IAC, SE>>
    /\ pc = 8
    /\ telnet.state = "TELNET_SUB"
    /\ telnet.sub_size = 0
    /\ telnet.sub_buf[0] = 65

(***************************************************************************)
(* C24.  delete-forward: KEY_DC on an edit buffer with content c and       *)
(* cursor pos < size leaves c without c[pos], size - 1 and the cursor at   *)
(* pos, also when pos is the index of the last character; with pos = size  *)
(* it changes nothing.                                                     *)
(***************************************************************************)
Content(e) == [i \in 1..e.size |-> e.buf[i - 1]]
Without(c, p) == SubSeq(c, 1, p) \o SubSeq(c, p + 2, Len(c))

C24_DeleteForward ==
    [][(/\ call'.op = "key"
        /\ call'.arg = <<KEY_DC>>
        /\ 0 <= editbuf.pos
        /\ editbuf.pos <= editbuf.size
        /\ editbuf.size <= EDITBUF_MAX)
       => IF editbuf.pos < editbuf.size
          THEN /\ editbuf'.size = editbuf.size - 1
               /\ editbuf'.pos = editbuf.pos
               /\ Content(editbuf') = Without(Content(editbuf), editbuf.pos)
          ELSE editbuf' = editbuf]_vars

(***************************************************************************)
(* Driver for editbuf_set: tin is the text, as the bytes at the pointer up *)
(* to and including a NUL; the buffer holds typed characters or not.       *)
(***************************************************************************)
SetTexts ==
    {t \o <<0>> : t \in SeqsUpTo({97, 98}, EDITBUF_MAX + 2)}
    \cup {<<97, 0, 98, 0>>}

InitSet == InitProgram(80, 24, 0) /\ tin \in SetTexts /\ pc = 0

(* a key typed before the call *)
set_key(ch) ==
    /\ pc = 0
    /\ editbuf.size < EDITBUF_MAX
    /\ editbuf' \in editbuf_insert(editbuf, ch)
    /\ call' = [op |-> "key", arg |-> <<ch>>]
    /\ log' = <<>>
    /\ UNCHANGED <<telnet, terminal, win_input, COLS, LINES, now, tin, protocol, pc,
                   websock, banner, autobanner>>

set_text ==
    /\ pc = 0
    /\ editbuf' \in editbuf_set(editbuf, tin)
    /\ pc' = 1
    /\ call' = [op |-> "set", arg |-> tin]
    /\ log' = <<>>
    /\ UNCHANGED <<telnet, terminal, win_input, COLS, LINES, now, tin, protocol,
                   websock, banner, autobanner>>

NextSet == set_key(97) \/ set_text

SpecSet == InitSet /\ [][NextSet]_vars

EndsWith(s, t) == Len(t) <= Len(s) /\ SubSeq(s, Len(s) - Len(t) + 1, Len(s)) = t

C26_EmptyStyle ==
    (call.op = "text" /\ EndsWith(tin, <<27, 91, 109>>)) =>
        /\ terminal.color = TERM_COLOR_DEFAULT
        /\ terminal.state = "TERM_ASCII"

(***************************************************************************)
(* C27.  Clear command: the text ESC [ p1 ; .. ; pn J clears the main      *)
(* window if and only if n = 1 and p1 is 2; in every case the renderer is  *)
(* in TERM_ASCII afterwards and terminal.color is what it was.             *)
(***************************************************************************)
C27_ClearCommand ==
    call.op = "text" =>
        \A ps \in SeqsUpTo(AnsiParams, MaxParams), t \in AnsiTails :
            tin = <<27, 91>> \o SemiJoin(ps) \o <<74>> \o t =>
                /\ (EvOf(log, "clear") # <<>>) <=> (ps = << <<50>> >>)
                /\ Len(EvOf(log, "clear")) <= 1
                /\ terminal.state = "TERM_ASCII"
                /\ terminal.color = TERM_COLOR_DEFAULT
                /\ EvOf(log, "attr") = <<>>

(***************************************************************************)
(* do_send, one send() at a time.  tin is the bytes do_send was called     *)
(* with and pc the number of them sent so far; send() returns -1 with an   *)
(* errno, 0, or the number of bytes it took.  call records the return      *)
(* value and errno of the last send(), and the exit code if do_send left   *)
(* the program.                                                            *)
(***************************************************************************)
EAGAIN == 11
EINTR == 4
Errnos == {EAGAIN, EINTR, 32}                  \* 32: EPIPE, a lasting error

InitSend == InitProgram(80, 24, 0) /\ tin \in Payloads /\ pc = 0

(* the body of the while loop for one return value of send() *)
do_send_iter(ret, errno) ==
    /\ pc < Len(tin)                                    \* while (len > 0)
    /\ call.op # "exit"
    /\ IF ret = -1
       THEN IF ret # EAGAIN /\ ret # EINTR
            THEN /\ call' = [op |-> "exit", arg |-> <<ret, errno, 1>>]
                 /\ UNCHANGED <<pc, log>>
            ELSE /\ call' = [op |-> "send", arg |-> <<ret, errno>>]
                 /\ UNCHANGED <<pc, log>>
       ELSE IF ret = 0
       THEN /\ call' = [op |-> "exit", arg |-> <<ret, errno, 0>>]
            /\ UNCHANGED <<pc, log>>
       ELSE /\ call' = [op |-> "send", arg |-> <<ret, errno>>]
            /\ log' = Append(log, Ev("tx", SubSeq(tin, pc + 1, pc + ret)))
            /\ pc' = pc + ret
    /\ UNCHANGED <<telnet, terminal, editbuf, win_input, COLS, LINES, now, tin, protocol,
                   websock, banner, autobanner>>

NextSend ==
    \/ \E e \in Errnos : do_send_iter(-1, e)
    \/ do_send_iter(0, 0)
    \/ \E n \in 1..(Len(tin) - pc) : do_send_iter(n, 0)

SpecSend == InitSend /\ [][NextSend]_vars

(***************************************************************************)
(* C29.  Transmit error handling: a send() that fails with EAGAIN or EINTR *)
(* does not end the session; one that fails with another errno ends it     *)
(* with exit code 1, one that returns 0 ends it with exit code 0; and when *)
(* all len bytes are out they went out once each and in order.             *)
(***************************************************************************)
C29_TransmitErrors ==
    [][/\ (call'.arg[1] = -1 /\ call'.arg[2] \in {EAGAIN, EINTR}) =>
              call'.op = "send" /\ pc' = pc /\ log' = log
       /\ (call'.arg[1] = -1 /\ call'.arg[2] \notin {EAGAIN, EINTR}) =>
              call'.op = "exit" /\ call'.arg[3] = 1
       /\ call'.arg[1] = 0 => call'.op = "exit" /\ call'.arg[3] = 0
       /\ pc' = Len(tin) => Sent(log') = tin]_vars

(***************************************************************************)
(* C30.  Line submission: on KEY_ENTER, '\n' or '\r' on_key hands on_line  *)
(* exactly the bytes buf[0 .. size-1] of that moment, once, and leaves the *)
(* edit buffer with size 0 and pos 0; on every other key on_line is not    *)
(* called and nothing is sent.                                             *)
(***************************************************************************)
C30_LineSubmission ==
    [][call'.op = "key" =>
          IF call'.arg[1] \in {KEY_ENTER, 10, 13}
          THEN /\ EvOf(log', "line") = <<Ev("line", Content(editbuf))>>
               /\ editbuf'.size = 0
               /\ editbuf'.pos = 0
          ELSE /\ EvOf(log', "line") = <<>>
               /\ Sent(log') = <<>>]_vars

(***************************************************************************)
(* C21.  Reaction ordering: within one batch handed to telnet_on_recv,     *)
(* what a byte makes the program send (a WILL/DO/DONT acknowledgement, the *)
(* WILL NAWS with its resize frame, a sub-protocol reply) is written to    *)
(* the socket whole before the next byte of the batch is looked at: the    *)
(* events of the batch are those of its bytes, byte after byte, each       *)
(* byte's transmission being nothing or one whole reaction, so reactions   *)
(* go out in the order of their triggers and are never interleaved.        *)
(***************************************************************************)
(* the events of each byte of data, the byte being handed over alone *)
RECURSIVE ByteLogs(_, _)
ByteLogs(w, data) ==
    IF data = <<>> THEN <<>>
    ELSE LET w1 == telnet_on_recv([w EXCEPT !.log = <<>>], <<Head(data)>>)
         IN CASE w1.telnet.state \in TelnetStates ->
                     <<w1.log>> \o ByteLogs(w1, Tail(data))

WholeReaction(b) ==
    \/ b \in {<<255, 253, 1>>, <<255, 254, 1>>, <<255, 253, 93>>}
    \/ b = <<255, 251, 31>> \o ResizeFrame(COLS, LINES)
    \/ /\ Len(b) > 5
       /\ IsPrefix(<<255, 250, 93>>, b)
       /\ EndsWith(b, <<255, 240>>)
       /\ \A i \in 4..(Len(b) - 2) : b[i] # 255

C21_ReactionOrdering ==
    [][call'.op = "recv" =>
          \A each \in {ByteLogs(World, call'.arg)} :
             /\ log' = log \o Flatten(each)
             /\ \A i \in 1..Len(each) :
                    \A b \in {Sent(each[i])} : b = <<>> \/ WholeReaction(b)]_vars

C21_Witness ==
    /\ tin = ZmpOn \o PingFrame \o <<65>>
    /\ call = [op |-> "recv", arg |-> tin]
    /\ Len(log) = 9
    /\ log[1] = Ev("tx", <<255, 253, 93>>)
    /\ log[2].k = "zmp"
    /\ log[4] = Ev("tx", <<255, 250, 93>>)
    /\ log[7] = Ev("tx", <<255, 240>>)
    /\ log[9] = Ev("paint", <<65>>)
    /\ Len(Sent(log)) = 37

(***************************************************************************)
(* SpecSession: a whole session of either protocol.  protocol_init has     *)
(* selected the handlers; the main loop then runs on_key for a key,        *)
(* protocol.on_recv for what recv() returned and redraw_display for a      *)
(* SIGWINCH, in any order.                                                 *)
(***************************************************************************)
(* a submit under the NUL-delimited protocol; with a wrapped size send()   *)
(* is handed some 2^64 bytes and the session does not go on                *)
websock_key_submit ==
    IF editbuf.size >= 0
    THEN {[e |-> e2,
           w |-> websock_on_line([Fresh EXCEPT !.log = <<Ev("line", line)>>], line)] :
            line \in peek(editbuf.buf, editbuf.size),
            e2 \in editbuf_set(editbuf, <<>>)}
    ELSE {}

SessionKeys == {97, 10}
SessionBytes == {IAC, DO, DONT, WILL, WONT, TELOPT_ECHO, TELOPT_NAWS, 93}
SessionFrames ==
    { PingFrame, <<IAC, WILL, TELOPT_ECHO, IAC, WONT, TELOPT_ECHO, 65>> }
SessionData == {<<b>> : b \in SessionBytes} \cup SessionFrames
SessionMsgs ==
    { <<112, 49, 0>>, <<112, 48, 0>>, <<112, 49, 48, 0>>, <<34, 65, 0>>,
      <<62, 65, 0>>, <<67, 0>>, <<112>>, <<49>>, <<0>> }

InitSession ==
    \E type \in {"PROTOCOL_TELNET", "PROTOCOL_WEBSOCK"} :
        InitProgramAs(type, 80, 24, 0) /\ tin = <<>> /\ pc = 0

session_key(key) ==
    IF protocol = "PROTOCOL_TELNET"
    THEN on_key(key)
    ELSE on_key_with(websock_key_submit, key)

session_recv(data) ==
    IF protocol = "PROTOCOL_TELNET"
    THEN data \in SessionData /\ on_recv(data)
    ELSE /\ data \in SessionMsgs
         /\ Commit(websock_on_recv(Fresh, data))
         /\ call' = [op |-> "wrecv", arg |-> data]
         /\ UNCHANGED <<editbuf, win_input, COLS, LINES, now, tin, protocol, pc>>

session_resize(cols) ==
    IF protocol = "PROTOCOL_TELNET"
    THEN redraw_display(TRUE, cols, LINES)
    ELSE /\ COLS' = cols
         /\ Commit(IF running THEN websock_on_resize(Fresh, htons(cols), htons(LINES))
                   ELSE Fresh)
         /\ win_input' \in editbuf_display(editbuf, terminal.flags)
         /\ call' = [op |-> "resize", arg |-> <<cols, LINES>>]
         /\ UNCHANGED <<editbuf, LINES, now, tin, protocol, pc>>

NextSession ==
    \/ \E key \in SessionKeys : session_key(key)
    \/ \E data \in SessionData \cup SessionMsgs : session_recv(data)
    \/ session_resize(255)

SpecSession == InitSession /\ [][NextSession]_vars

(***************************************************************************)
(* C31.  Option-flag frame condition.  As stated: local echo, ZMP and NAWS *)
(* change only while telnet_on_recv consumes the argument byte of a DO,    *)
(* WILL or WONT; no other byte, dispatch, inbound message of the           *)
(* NUL-delimited protocol, key, line submission or resize changes them.    *)
(***************************************************************************)
FlagsOf(w) == [echo |-> "ECHO" \in w.terminal.flags,
               zmp |-> "ZMP" \in w.telnet.flags,
               naws |-> "NAWS" \in w.telnet.flags]

(* every byte of data that changes a flag is read in a negotiation state *)
OnlyArguments(data) ==
    \A i \in 1..Len(data) :
        \A w0 \in {telnet_on_recv(Fresh, SubSeq(data, 1, i - 1))} :
            FlagsOf(telnet_on_recv(w0, <<data[i]>>)) # FlagsOf(w0)
                => w0.telnet.state \in {"TELNET_DO", "TELNET_WILL", "TELNET_WONT"}

FlagsChange ==
    \/ ("ECHO" \in terminal'.flags) # ("ECHO" \in terminal.flags)
    \/ telnet'.flags # telnet.flags

TelnetStep == protocol = "PROTOCOL_TELNET" /\ call'.op = "recv"

C31_OptionFlagFrame_AsStated ==
    [][/\ FlagsChange => TelnetStep
       /\ TelnetStep => OnlyArguments(call'.arg)]_vars

(***************************************************************************)
(* C31, amended.  The flags change only while telnet_on_recv consumes the  *)
(* argument byte of a DO, WILL or WONT, or, under the NUL-delimited        *)
(* protocol, on the NUL that completes the message 'p' '1' (echo off) or   *)
(* 'p' '0' (echo on), which leaves ZMP and NAWS alone.  No key, line       *)
(* submission, resize or other inbound byte or message changes them.       *)
(***************************************************************************)
PasswordStep ==
    /\ protocol = "PROTOCOL_WEBSOCK"
    /\ call'.op = "wrecv"
    /\ call'.arg[Len(call'.arg)] = 0
    /\ \A m \in {[i \in 1..websock.msg_size |-> websock.msg[i - 1]]
                 \o SubSeq(call'.arg, 1, Len(call'.arg) - 1)} :
          /\ m \in {<<112, 49>>, <<112, 48>>}
          /\ ("ECHO" \in terminal'.flags) = (m = <<112, 48>>)
    /\ telnet'.flags = telnet.flags

C31_OptionFlagFrame ==
    [][/\ FlagsChange => TelnetStep \/ PasswordStep
       /\ TelnetStep => OnlyArguments(call'.arg)]_vars

C31_Witness ==
    /\ protocol = "PROTOCOL_TELNET"
    /\ call = [op |-> "recv", arg |-> <<TELOPT_NAWS>>]
    /\ telnet.flags = {"ZMP", "NAWS"}
    /\ "ECHO" \notin terminal.flags
    /\ telnet.state = "TELNET_TEXT"
    /\ Sent(log) = <<255, 251, 31>> \o ResizeFrame(255, 24)
    /\ editbuf.size = 1

(***************************************************************************)
(* C32.  Complete reaction table: a negotiation argument makes the program *)
(* send in exactly four cases: DO 31 sends IAC WILL 31 and the resize      *)
(* frame and sets NAWS, WILL 1 sends IAC DO 1 and clears local echo,       *)
(* WILL 93 sends IAC DO 93 and sets ZMP, WONT 1 sends IAC DONT 1 and sets  *)
(* local echo.  Every other DO, WILL or WONT argument and every DONT       *)
(* argument sends nothing and changes no flag; NAWS and ZMP, once set, are *)
(* never cleared; every negotiation state is back in TELNET_TEXT after one *)
(* byte.                                                                   *)
(***************************************************************************)
NegotiateStates == {"TELNET_DO", "TELNET_DONT", "TELNET_WILL", "TELNET_WONT"}

C32_ReactionTable ==
    [][/\ (call'.op = "recv" /\ Len(call'.arg) = 1 /\ telnet.state \in NegotiateStates) =>
            \A c \in {call'.arg[1]} :
               /\ telnet'.state = "TELNET_TEXT"
               /\ OnlyTx(log')
               /\ CASE telnet.state = "TELNET_DO" /\ c = 31 ->
                         /\ Sent(log') = <<255, 251, 31>> \o ResizeFrame(COLS, LINES)
                         /\ telnet'.flags = telnet.flags \cup {"NAWS"}
                         /\ terminal'.flags = terminal.flags
                    [] telnet.state = "TELNET_WILL" /\ c = 1 ->
                         /\ Sent(log') = <<255, 253, 1>>
                         /\ terminal'.flags = terminal.flags \ {"ECHO"}
                         /\ telnet'.flags = telnet.flags
                    [] telnet.state = "TELNET_WILL" /\ c = 93 ->
                         /\ Sent(log') = <<255, 253, 93>>
                         /\ telnet'.flags = telnet.flags \cup {"ZMP"}
                         /\ terminal'.flags = terminal.flags
                    [] telnet.state = "TELNET_WONT" /\ c = 1 ->
                         /\ Sent(log') = <<255, 254, 1>>
                         /\ terminal'.flags = terminal.flags \cup {"ECHO"}
                         /\ telnet'.flags = telnet.flags
                    [] OTHER ->
                         /\ log' = <<>>
                         /\ telnet'.flags = telnet.flags
                         /\ terminal'.flags = terminal.flags
       /\ telnet.flags \subseteq telnet'.flags]_vars

C32_Witness ==
    /\ call = [op |-> "recv", arg |-> <<TELOPT_ECHO>>]
    /\ log = <<Ev("tx", <<255, 254, 1>>)>>
    /\ terminal.flags = {"ECHO"}
    /\ telnet.flags = {"ZMP", "NAWS"}
    /\ telnet.state = "TELNET_TEXT"

(***************************************************************************)
(* C33.  Dispatch gating: a completed subnegotiation makes the program     *)
(* send only if its first byte is 93 and ZMP was set by an earlier         *)
(* IAC WILL 93.  A frame received before that negotiation (a valid         *)
(* zmp.ping included), a subnegotiation with another first byte, an empty  *)
(* one, and a frame whose command is zmp.time, zmp.ident, zmp.support,     *)
(* zmp.no-support or unknown send nothing, paint nothing and change no     *)
(* flag.                                                                   *)
(***************************************************************************)
Quiet(l) == \A i \in 1..Len(l) : l[i].k \in {"zmp", "argv", "oob"}

C33_DispatchGating ==
    [][call'.op = "sub" =>
          /\ Sent(log') # <<>> => tin # <<>> /\ tin[1] = 93 /\ "ZMP" \in telnet.flags
          /\ (\/ "ZMP" \notin telnet.flags
              \/ tin = <<>>
              \/ tin[1] # 93
              \/ CStr(Tail(tin)) \notin {ZMP_PING, ZMP_CHECK}) =>
                 /\ Quiet(log')
                 /\ telnet'.flags = telnet.flags
                 /\ terminal' = terminal]_vars

C33_Witness ==
    /\ call = [op |-> "sub", arg |-> <<93>> \o ZMP_NO_SUPPORT \o <<0, 122, 0>>]
    /\ "ZMP" \in telnet.flags
    /\ EvOf(log, "zmp") = <<Ev("zmp", ZMP_NO_SUPPORT \o <<0, 122, 0>>)>>
    /\ Sent(log) = <<>>
    /\ Painted(log) = <<>>
    /\ telnet.state = "TELNET_TEXT"

(***************************************************************************)
(* SpecEcho: the server's bytes put the renderer in some state (a colour   *)
(* selected, an escape sequence begun) and switch echo and ZMP; then the   *)
(* line tin is handed to telnet_on_line.                                   *)
(***************************************************************************)
EchoLines == SeqsUpTo({65, 27, 13}, MaxPayload)
EchoChunks ==
    SessionChunks
    \cup { <<27, 91, 51, 55, 109>>,                              \* ESC [ 3 7 m
           <<27, 91, 48, 109>>,                                  \* ESC [ 0 m
           <<27, 91, 51, 56, 59, 51, 48, 109>>,                  \* ESC [ 3 8 ; 3 0 m
           <<27, 91, 51, 50, 59>> }                              \* ESC [ 3 2 ;

InitEcho == InitProgram(80, 24, 0) /\ tin \in EchoLines /\ pc = 0

echo_recv(data) == pc = 0 /\ on_recv(data)

echo_line ==
    /\ pc = 0
    /\ Commit(telnet_on_line(Fresh, tin))
    /\ pc' = 1
    /\ call' = [op |-> "line", arg |-> tin]
    /\ UNCHANGED <<editbuf, win_input, COLS, LINES, now, tin, protocol>>

NextEcho ==
    \/ \E data \in EchoChunks : echo_recv(data)
    \/ echo_line

SpecEcho == InitEcho /\ [][NextEcho]_vars

(***************************************************************************)
(* C34.  Local echo of submitted lines: telnet_on_line paints the line in  *)
(* the main window if and only if the echo flag is set when it is called;  *)
(* the echo paints no ESC and no carriage return, leaves the renderer's    *)
(* state, parameter list and colour as they were, and ends with the        *)
(* renderer's colour as the active colour pair; that colour is always one  *)
(* of 1..7 or the default 9.                                               *)
(***************************************************************************)
RECURSIVE Plain(_)
Plain(line) ==
    IF line = <<>> THEN <<>>
    ELSE (IF Head(line) \in {27, 13} THEN <<>> ELSE <<Head(line)>>) \o Plain(Tail(line))

Shown(l) == SelectSeq(l, LAMBDA e : e.k # "tx")

C34_LocalEcho ==
    [][/\ call'.op = "line" =>
            /\ terminal' = terminal
            /\ IF "ECHO" \in terminal.flags
               THEN /\ Painted(log') = Plain(tin) \o <<10>>
                    /\ \A i \in 1..Len(Painted(log')) : Painted(log')[i] \notin {27, 13}
                    /\ Len(EvOf(log', "attr")) = 2
                    /\ Shown(log')[1] = Ev("attr", <<COLOR_YELLOW>>)
                    /\ Shown(log')[Len(Shown(log'))] = Ev("attr", <<terminal'.color>>)
               ELSE Shown(log') = <<>>
       /\ terminal'.color \in (1..7) \cup {TERM_COLOR_DEFAULT}]_vars

C34_Witness ==
    /\ call = [op |-> "line", arg |-> <<65, 27, 13>>]
    /\ "ECHO" \in terminal.flags
    /\ terminal.color = 7
    /\ terminal.state = "TERM_ESCRUN"
    /\ Shown(log) = <<Ev("attr", <<COLOR_YELLOW>>), Ev("paint", <<65>>),
                      Ev("paint", <<10>>), Ev("attr", <<7>>)>>

====
